---------------------------- MODULE Spec2Model ----------------------------
(***************************************************************************)
(* The comparable-property matching engine of TaxProtest                   *)
(* (src/src/taxprotest/comparables): find_comps with its relaxation        *)
(* search, constraint filter, candidate assembler, scoring, pricing stats  *)
(* and the module-level LRU result cache.                                  *)
(*                                                                         *)
(* Units.  Areas, years, counts and market values are integers.  Bands of  *)
(* size and lot are in percent (0.05 is 5).  Coordinates are points of a   *)
(* plane grid whose unit is a tenth of a mile, radii are in tenths of a    *)
(* mile (1.5 mi is 15) and the great-circle distance is the plane          *)
(* distance of the grid.  Scores are in hundredths of a point.             *)
(***************************************************************************)
EXTENDS Integers, Sequences, FiniteSets, TLC

(***************************************************************************)
(* Raw column values.  A column read from the store holds a number n >= 0  *)
(* (an int, or the digit string of n > 0), or one of the values below.     *)
(***************************************************************************)
PyNone == -1
    \* Python None (SQL NULL)
Blank == -2
    \* the empty string ''
ZeroStr == -3
    \* the string '0'
Malformed == -4
    \* a non-numeric string such as 'N/A'
Raised == -5
    \* the outcome of a conversion that raises (ValueError, TypeError)

\* Python truthiness of a raw value: None, '' and the int 0 are falsy.
Truthy(v) == v \notin {PyNone, Blank, 0}

\* v not in ('', '0')
NotBlankZero(v) == v \notin {Blank, ZeroStr}

\* v not in (None, '')
NotNoneBlank(v) == v \notin {PyNone, Blank}

\* float(v): raises on None, '' and on a non-numeric string.
PyFloat(v) == IF v >= 0 THEN v ELSE IF v = ZeroStr THEN 0 ELSE Raised

\* int(v): raises on None, '' and on a non-numeric string.
PyInt(v) == IF v >= 0 THEN v ELSE IF v = ZeroStr THEN 0 ELSE Raised

\* str(v).isdigit()
IsDigit(v) == v >= 0 \/ v = ZeroStr

\* v in (0, 1): the known values of a tri-state flag.
IsFlag(v) == v \in {0, 1}

_float(v) ==
    IF v = PyNone THEN PyNone
    ELSE IF v \in {Blank, ZeroStr, 0} THEN PyNone
    ELSE IF PyFloat(v) = Raised THEN PyNone
    ELSE PyFloat(v)

_int(v) ==
    IF v = PyNone THEN PyNone
    ELSE IF ~IsDigit(v) THEN PyNone
    ELSE PyInt(v)

Abs(n) == IF n < 0 THEN -n ELSE n

MinOf(a, b) == IF a <= b THEN a ELSE b

(***************************************************************************)
(* Configuration (comparables/config.py).  The search takes the NBands     *)
(* tightest bands of every list followed by the list's unbounded entry,    *)
(* and the NRadiusTiers smallest radii.                                    *)
(***************************************************************************)
NBands == 1
NRadiusTiers == 2

SIZE_BANDS == <<5, 10, 15, 20, 25, 35, PyNone>>
LOT_BANDS == <<10, 20, 30, 40, 50, PyNone>>
YEAR_BANDS == <<5, 10, 15, 20, 30, PyNone>>
BED_BATH_BANDS == <<1, 2, 3, PyNone>>
RADIUS_TIERS == <<15, 30, 50, 100, 150, 200, 250>>
STORY_TOLERANCES == <<0, 1, 2, PyNone>>
CACHE_MAX_ENTRIES == 50

\* A band list without its unbounded last entry
BandsBounded(l) == SubSeq(l, 1, MinOf(NBands, Len(l) - 1))

\* The bands of list l the search uses: its tightest ones and its last entry.
Bands(l) ==
    LET k == MinOf(NBands, Len(l) - 1)
    IN  SubSeq(l, 1, k) \o <<l[Len(l)]>>

Radii == SubSeq(RADIUS_TIERS, 1, MinOf(NRadiusTiers, Len(RADIUS_TIERS)))


(***************************************************************************)
(* The store.  A row of the joined tables real_acct, building_res,         *)
(* property_derived and property_geo is a record; the store is a set of    *)
(* rows with distinct acct.  A request is [subject_account, max_comps,     *)
(* min_comps, radius_first_strict, max_radius].                            *)
(***************************************************************************)
\* the SELECT of the subject: cur.fetchone(), PyNone when there is no row
SubjectRows(store, acct) == {r \in store : r.acct = acct}

\* The radius list with max_radius ignored
radius_tiers_unfiltered(q) == Radii

\* radius_tiers after the max_radius filter: the filtered list, or the
\* whole list when the filter leaves nothing
radius_tiers(q) ==
    IF q.max_radius # PyNone
    THEN LET Within(r) == r <= q.max_radius
             kept == SelectSeq(Radii, Within)
         IN  IF kept # <<>> THEN kept ELSE Radii
    ELSE Radii

\* s_stories is not None and str(s_stories).strip() != ''
StoriesGiven(s) == s.stories # PyNone /\ s.stories # Blank

size_bands == Bands(SIZE_BANDS)
lot_bands == Bands(LOT_BANDS)
year_bands == Bands(YEAR_BANDS)
bed_bath_bands == Bands(BED_BATH_BANDS)
story_tolerances(s) == IF StoriesGiven(s) THEN Bands(STORY_TOLERANCES) ELSE <<PyNone>>
pool_modes(s) == IF IsFlag(s.has_pool) THEN <<"match", "any">> ELSE <<"any">>
garage_modes(s) == IF IsFlag(s.has_garage) THEN <<"match", "any">> ELSE <<"any">>

\* s_lat and s_lon
SubjectHasGeo(s) == Truthy(s.latitude) /\ Truthy(s.longitude)

\* s_nbhd and str(s_nbhd).strip() != ''
SubjectHasNbhd(s) == Truthy(s.nbhd) /\ s.nbhd # Blank

(***************************************************************************)
(* passes: the constraint filter.  A combination is the tuple              *)
(* <<size, lot, year, bed_bath, story, pool, garage>>.  Every dimension    *)
(* returns False on its own, so the filter is their conjunction.           *)
(***************************************************************************)
\* a relative band b (percent) around base: rejected when outside
OutsideBand(v, base, b) == 100 * v < base * (100 - b) \/ 100 * v > base * (100 + b)

SizePasses(c, s, size_band) ==
    LET base_im == _float(s.building_area)
    IN  IF size_band # PyNone /\ Truthy(base_im) /\ Truthy(c.building_area)
           /\ NotBlankZero(c.building_area)
        THEN PyFloat(c.building_area) # Raised
             /\ ~OutsideBand(PyFloat(c.building_area), base_im, size_band)
        ELSE TRUE

LotPasses(c, s, lot_band) ==
    LET base_lot == _float(s.land_area)
    IN  IF lot_band # PyNone /\ Truthy(base_lot) /\ Truthy(c.land_area)
           /\ NotBlankZero(c.land_area)
        THEN PyFloat(c.land_area) # Raised
             /\ ~OutsideBand(PyFloat(c.land_area), base_lot, lot_band)
        ELSE TRUE

YearPasses(c, s, year_band) ==
    LET base_year == _int(s.build_year)
    IN  IF year_band # PyNone /\ Truthy(base_year) /\ Truthy(c.build_year)
           /\ IsDigit(c.build_year)
        THEN Abs(PyInt(c.build_year) - base_year) <= year_band
        ELSE TRUE

\* one of bedrooms, bathrooms: field f of the candidate against the base
CountPasses(cv, base, band) ==
    IF base # PyNone /\ NotNoneBlank(cv)
    THEN PyFloat(cv) # Raised /\ Abs(PyFloat(cv) - base) <= band
    ELSE TRUE

BedBathPasses(c, s, bed_bath_band) ==
    IF bed_bath_band # PyNone
    THEN CountPasses(c.bedrooms, _float(s.bedrooms), bed_bath_band)
         /\ CountPasses(c.bathrooms, _float(s.bathrooms), bed_bath_band)
    ELSE TRUE

\* A stories check that lets a candidate without story count through, as
\* the other dimensions do
StoryPassesLenient(c, s, story_tol) ==
    IF story_tol # PyNone /\ StoriesGiven(s) /\ NotNoneBlank(c.stories)
    THEN PyInt(c.stories) # Raised /\ PyInt(s.stories) # Raised
         /\ Abs(PyInt(c.stories) - PyInt(s.stories)) <= story_tol
    ELSE TRUE

StoryPasses(c, s, story_tol) ==
    IF story_tol # PyNone /\ StoriesGiven(s)
    THEN NotNoneBlank(c.stories)
         /\ PyInt(c.stories) # Raised /\ PyInt(s.stories) # Raised
         /\ Abs(PyInt(c.stories) - PyInt(s.stories)) <= story_tol
    ELSE TRUE

\* A flag check that takes an unknown candidate flag for a mismatch
FlagPassesKnownOnly(cf, sf, mode) == ~(mode = "match" /\ IsFlag(sf) /\ cf # sf)

\* pool and garage: a definite mismatch under rule 'match' rejects
FlagPasses(cf, sf, mode) == ~(mode = "match" /\ IsFlag(sf) /\ IsFlag(cf) /\ cf # sf)

\* the check of dimension d under band
DimPasses(d, c, s, band) ==
    CASE d = 1 -> SizePasses(c, s, band)
      [] d = 2 -> LotPasses(c, s, band)
      [] d = 3 -> YearPasses(c, s, band)
      [] d = 4 -> BedBathPasses(c, s, band)
      [] d = 5 -> StoryPasses(c, s, band)
      [] d = 6 -> FlagPasses(c.has_pool, s.has_pool, band)
      [] d = 7 -> FlagPasses(c.has_garage, s.has_garage, band)

passes(c, s, combo) == \A d \in 1..7 : DimPasses(d, c, s, combo[d])

(***************************************************************************)
(* haversine, build_dist_map and materialize_candidate.                    *)
(***************************************************************************)
\* the largest d with d * d <= n, by bisection of lo..hi
RECURSIVE SqrtIn(_, _, _)
SqrtIn(n, lo, hi) ==
    IF lo >= hi THEN lo
    ELSE LET mid == (lo + hi + 1) \div 2
         IN  IF mid * mid <= n THEN SqrtIn(n, mid, hi) ELSE SqrtIn(n, lo, mid - 1)

\* (the root of a squared distance of the grid is below 40000)
Isqrt(n) == SqrtIn(n, 0, MinOf(n, 40000))

\* the squared distance of two grid points, in squared tenths of a mile
haversine2(lat1, lon1, lat2, lon2) ==
    (lat2 - lat1) * (lat2 - lat1) + (lon2 - lon1) * (lon2 - lon1)

\* c_acct in dist_map: the subject has coordinates, the candidate's are not
\* None and convert to float
InDistMap(c, s) ==
    /\ SubjectHasGeo(s)
    /\ c.latitude # PyNone /\ c.longitude # PyNone
    /\ PyFloat(c.latitude) # Raised /\ PyFloat(c.longitude) # Raised

\* dist_map[c_acct], squared
DistSq(c, s) == haversine2(s.latitude, s.longitude, PyFloat(c.latitude), PyFloat(c.longitude))

\* the two points lie more than 400 miles apart along an axis: farther
\* than every radius tier.  The haversine reaches 12,437 miles (half the
\* circumference); squares of such distances pass 32 bits, so they are
\* computed on the lines of a 10-mile grid
FarApart(c, s) ==
    \/ Abs(PyFloat(c.latitude) - s.latitude) > 4000
    \/ Abs(PyFloat(c.longitude) - s.longitude) > 4000

\* round(dist_map[c_acct], 2), in hundredths of a mile: the grid unit is a
\* tenth of a mile, so this is round(10 * sqrt(DistSq))
Distance100(c, s) ==
    IF FarApart(c, s)
    THEN 1000 * Isqrt(haversine2(0, 0, Abs(PyFloat(c.latitude) - s.latitude) \div 100,
                                 Abs(PyFloat(c.longitude) - s.longitude) \div 100))
    ELSE (Isqrt(400 * DistSq(c, s)) + 1) \div 2

\* A materialize_candidate without the radius re-check
NeverDropped(c, s, radius_val) == FALSE

\* the radius re-check: materialize_candidate returns None
DroppedByRadius(c, s, radius_val) ==
    radius_val # PyNone /\ SubjectHasGeo(s) /\ InDistMap(c, s)
    /\ (FarApart(c, s) \/ DistSq(c, s) > radius_val * radius_val)

\* rec['ppsf'] is set: both fields truthy, not '' or '0', and convertible
HasPpsf(c) ==
    /\ Truthy(c.building_area) /\ NotBlankZero(c.building_area)
    /\ Truthy(c.market_value) /\ NotBlankZero(c.market_value)
    /\ PyFloat(c.market_value) # Raised /\ PyFloat(c.building_area) # Raised
    /\ PyFloat(c.building_area) # 0

\* round(a / b, 2) in hundredths
Ratio100(a, b) == (200 * a + b) \div (2 * b)

\* the record of a candidate that is not dropped (score not yet assigned)
materialize_candidate(c, s, radius_val) ==
    [acct |-> c.acct,
     site_addr_3 |-> c.site_addr_3,
     market_value |-> c.market_value,
     land_area |-> c.land_area,
     building_area |-> c.building_area,
     build_year |-> c.build_year,
     bedrooms |-> c.bedrooms,
     bathrooms |-> c.bathrooms,
     stories |-> c.stories,
     has_pool |-> c.has_pool,
     has_garage |-> c.has_garage,
     distance_miles |-> IF InDistMap(c, s) THEN Distance100(c, s) ELSE PyNone,
     ppsf |-> IF HasPpsf(c)
              THEN Ratio100(PyFloat(c.market_value), PyFloat(c.building_area))
              ELSE PyNone,
     score |-> PyNone]

(***************************************************************************)
(* The inner loop of find_comps over one tier's candidates, in the order   *)
(* the query returned them: the candidates that pass and are not dropped,  *)
(* the loop breaking once max_comps of them are selected (the length is    *)
(* tested after the append).                                               *)
(***************************************************************************)
\* What the loop needs of a candidate, computed once per tier: whether
\* materialize_candidate drops it, its record, and per dimension the bands
\* of the tier's lists it passes (passes(c, s, combo) holds exactly when
\* every combo[d] is among them)
CandidateInfo(c, s, lists, radius_val) ==
    [dropped |-> DroppedByRadius(c, s, radius_val),
     rec |-> materialize_candidate(c, s, radius_val),
     passing |-> [d \in 1..7 |->
                    {lists[d][b] : b \in {x \in 1..Len(lists[d]) :
                                              DimPasses(d, c, s, lists[d][x])}}]]

PassesIn(info, combo) == \A d \in 1..7 : combo[d] \in info.passing[d]

\* A loop that leaves (`break`) at a candidate the radius re-check drops,
\* where find_comps goes on to the next candidate (`continue`)
RECURSIVE SelectFromBreak(_, _, _, _, _)
SelectFromBreak(infos, i, selected, combo, max_comps) ==
    IF i > Len(infos) THEN selected
    ELSE IF PassesIn(infos[i], combo)
         THEN IF infos[i].dropped THEN selected
              ELSE IF Len(selected) + 1 >= max_comps THEN Append(selected, infos[i].rec)
              ELSE SelectFromBreak(infos, i + 1, Append(selected, infos[i].rec),
                                   combo, max_comps)
         ELSE SelectFromBreak(infos, i + 1, selected, combo, max_comps)

\* the loop over candidates_all from position i on; selected holds the
\* records appended so far
RECURSIVE SelectFrom(_, _, _, _, _)
SelectFrom(infos, i, selected, combo, max_comps) ==
    IF i > Len(infos) THEN selected
    ELSE IF PassesIn(infos[i], combo) /\ ~infos[i].dropped
         THEN IF Len(selected) + 1 >= max_comps THEN Append(selected, infos[i].rec)
              ELSE SelectFrom(infos, i + 1, Append(selected, infos[i].rec), combo, max_comps)
         ELSE SelectFrom(infos, i + 1, selected, combo, max_comps)

Selected(infos, combo, max_comps) == SelectFrom(infos, 1, <<>>, combo, max_comps)

(***************************************************************************)
(* iterate_constraint_sets: itertools.product of the seven band lists,     *)
(* the last list varying fastest, preceded under radius_first_strict by    *)
(* the tuple of first bands flagged is_strict.                             *)
(***************************************************************************)
BandLists(s) ==
    <<size_bands, lot_bands, year_bands, bed_bath_bands,
      story_tolerances(s), pool_modes(s), garage_modes(s)>>

\* A product whose first list varies fastest
RECURSIVE ProductFirstFastest(_, _)
ProductFirstFastest(lists, d) ==
    IF d > Len(lists) THEN <<(<<>>)>>
    ELSE LET rest == ProductFirstFastest(lists, d + 1)
             n == Len(lists[d])
         IN  [k \in 1..(n * Len(rest)) |->
                 <<lists[d][((k - 1) % n) + 1]>> \o rest[((k - 1) \div n) + 1]]

\* product(*lists[d..]): the tuples in the order itertools yields them
RECURSIVE Product(_, _)
Product(lists, d) ==
    IF d > Len(lists) THEN <<(<<>>)>>
    ELSE LET rest == Product(lists, d + 1)
             m == Len(rest)
         IN  [k \in 1..(Len(lists[d]) * m) |->
                 <<lists[d][((k - 1) \div m) + 1]>> \o rest[((k - 1) % m) + 1]]

FirstBands(s) == [d \in 1..7 |-> BandLists(s)[d][1]]

\* the items the generator yields, in order: [combo, is_strict]
iterate_constraint_sets(s, q) ==
    LET all == Product(BandLists(s), 1)
        relaxing == [k \in 1..Len(all) |-> [combo |-> all[k], is_strict |-> FALSE]]
    IN  IF q.radius_first_strict
        THEN <<[combo |-> FirstBands(s), is_strict |-> TRUE]>> \o relaxing
        ELSE relaxing

\* the loop body runs for item k: it is not skipped by the `continue`
\* (a non-strict item is skipped while radius_first_strict is set and no
\* strict item was seen; the strict item is the first one yielded)
Evaluated(items, q, k) ==
    LET seen_strict == items[1].is_strict
    IN  items[k].is_strict \/ ~(q.radius_first_strict /\ ~seen_strict)

\* item k is evaluated and reaches min_comps
Reaches(items, infos, q, k) ==
    /\ Evaluated(items, q, k)
    /\ Len(Selected(infos, items[k].combo, q.max_comps)) >= q.min_comps

\* A loop that keeps the last item of lo..hi that reaches min_comps, where
\* find_comps returns at the first
LastReaching(items, infos, q, lo, hi) ==
    LET reaching == {k \in lo..hi : Reaches(items, infos, q, k)}
    IN  IF reaching = {} THEN 0
        ELSE CHOOSE k \in reaching : \A j \in reaching : j <= k

\* the first item of lo..hi that reaches min_comps, 0 when there is none
RECURSIVE FirstReaching(_, _, _, _, _)
FirstReaching(items, infos, q, lo, hi) ==
    IF lo > hi THEN 0
    ELSE IF lo = hi THEN (IF Reaches(items, infos, q, lo) THEN lo ELSE 0)
    ELSE LET mid == (lo + hi) \div 2
             l == FirstReaching(items, infos, q, lo, mid)
         IN  IF l # 0 THEN l ELSE FirstReaching(items, infos, q, mid + 1, hi)

\* the number of items among 1..k whose body runs (attempts += 1)
AttemptsUpTo(items, q, k) == Cardinality({j \in 1..k : Evaluated(items, q, j)})

\* one round of the tier loop on candidates_all: the item accepted (0: none),
\* the number of items tried and the records selected under the accepted item
TierOutcome(candidates_all, s, q, radius_val) ==
    LET lists == BandLists(s)
        items == iterate_constraint_sets(s, q)
        infos == [i \in 1..Len(candidates_all) |->
                     CandidateInfo(candidates_all[i], s, lists, radius_val)]
        k == FirstReaching(items, infos, q, 1, Len(items))
    IN  [k |-> k,
         tried |-> AttemptsUpTo(items, q, IF k # 0 THEN k ELSE Len(items)),
         combo |-> IF k # 0 THEN items[k].combo ELSE FirstBands(s),
         selected |-> IF k # 0 THEN Selected(infos, items[k].combo, q.max_comps)
                      ELSE <<>>]

(***************************************************************************)
(* compute_score (comparables/scoring.py).  Penalties are in millionths,   *)
(* the score in hundredths of a point.                                     *)
(***************************************************************************)
SCORING_WEIGHTS ==
    [distance |-> 40, size |-> 25, year |-> 10, beds_baths |-> 10,
     stories |-> 5, pool_garage |-> 10]

\* a weight (percent) in millionths
Ppm(w) == w * 10000

\* w * MISSING_PENALTY_FACTOR (0.5)
MissingPenalty(w) == Ppm(w) \div 2

\* w * POOL_GARAGE_MISSING_FACTOR (0.25)
FlagMissingPenalty(w) == Ppm(w) \div 4

\* w * min(1.0, num / den)
Capped(w, num, den) == IF num >= den THEN Ppm(w) ELSE (Ppm(w) * num) \div den

DistancePenalty(r, w) ==
    IF r.distance_miles # PyNone THEN Capped(w, r.distance_miles, 1500) ELSE 0

SizePenalty(r, s, w) ==
    LET base_im == _float(s.building_area)
    IN  IF base_im # PyNone
        THEN IF Truthy(r.building_area) /\ NotBlankZero(r.building_area)
             THEN IF PyFloat(r.building_area) = Raised THEN 0
                  ELSE Capped(w, 10 * Abs(PyFloat(r.building_area) - base_im), 3 * base_im)
             ELSE MissingPenalty(w)
        ELSE 0

YearPenalty(r, s, w) ==
    LET base_year == _int(s.build_year)
    IN  IF base_year # PyNone
        THEN IF Truthy(r.build_year) /\ IsDigit(r.build_year)
             THEN Capped(w, Abs(PyInt(r.build_year) - base_year), 15)
             ELSE MissingPenalty(w)
        ELSE 0

\* beds and baths: min(2.0, |delta|) / 2.0
CountPenalty(rv, base, w) ==
    IF base # PyNone
    THEN IF NotNoneBlank(rv)
         THEN IF PyFloat(rv) = Raised THEN 0
              ELSE Capped(w, Abs(PyFloat(rv) - base), 2)
         ELSE MissingPenalty(w)
    ELSE 0

StoriesPenalty(r, s, w) ==
    LET base_stories == _int(s.stories)
    IN  IF base_stories # PyNone
        THEN IF NotNoneBlank(r.stories)
             THEN IF PyInt(r.stories) = Raised THEN 0
                  ELSE Capped(w, Abs(PyInt(r.stories) - base_stories), 1)
             ELSE MissingPenalty(w)
        ELSE 0

FlagPenalty(rf, sf, w) ==
    IF IsFlag(sf)
    THEN IF IsFlag(rf) THEN (IF rf # sf THEN Ppm(w) \div 2 ELSE 0)
         ELSE FlagMissingPenalty(w)
    ELSE 0

penalties(r, s, weights) ==
    DistancePenalty(r, weights.distance)
    + SizePenalty(r, s, weights.size)
    + YearPenalty(r, s, weights.year)
    + CountPenalty(r.bedrooms, _float(s.bedrooms), weights.beds_baths)
    + CountPenalty(r.bathrooms, _float(s.bathrooms), weights.beds_baths)
    + StoriesPenalty(r, s, weights.stories)
    + FlagPenalty(r.has_pool, s.has_pool, weights.pool_garage)
    + FlagPenalty(r.has_garage, s.has_garage, weights.pool_garage)

\* round(100 * (1 - min(0.99, penalties)), 2), floored at 0
compute_score(r, s, weights) ==
    LET score == (1000000 - MinOf(990000, penalties(r, s, weights)) + 50) \div 100
    IN  IF score < 0 THEN 0 ELSE score

(***************************************************************************)
(* comps.sort(key=(-score, distance or 9999)): a stable sort.              *)
(***************************************************************************)
DistanceKey(r) == IF r.distance_miles # PyNone THEN r.distance_miles ELSE 999900

\* An order by score alone
SortsBeforeByScore(x, y) == x.score > y.score

\* x sorts strictly before y
SortsBefore(x, y) ==
    x.score > y.score \/ (x.score = y.score /\ DistanceKey(x) < DistanceKey(y))

\* x inserted into the sorted sequence sq behind every element it does not
\* sort strictly before
InsertSorted(sq, x) ==
    LET later == {i \in 1..Len(sq) : SortsBefore(x, sq[i])}
        at == IF later = {} THEN Len(sq) + 1
              ELSE CHOOSE i \in later : \A j \in later : i <= j
    IN  SubSeq(sq, 1, at - 1) \o <<x>> \o SubSeq(sq, at, Len(sq))

RECURSIVE SortFrom(_, _, _)
SortFrom(sq, i, acc) ==
    IF i > Len(sq) THEN acc ELSE SortFrom(sq, i + 1, InsertSorted(acc, sq[i]))

SortComps(sq) == SortFrom(sq, 1, <<>>)

(***************************************************************************)
(* compute_pricing_stats (comparables/stats.py): the two series, their     *)
(* statistics blocks and the match rates.  The list comprehension of the   *)
(* market values is not guarded: float() of a non-numeric string raises    *)
(* ValueError.  Values are in hundredths; std, cv, the subject's           *)
(* deviations, the band counts and the trimmed median are left out.        *)
(***************************************************************************)
\* c.get('market_value') not in (None, '', '0')
InValues(r) == r.market_value \notin {PyNone, Blank, ZeroStr}

InPpsf(r) == r.ppsf \notin {PyNone, Blank, ZeroStr}

\* values: float(c['market_value']) of the comps that have one, in list
\* order (a value float() raises on stands as Raised)
ValueSeries(comps) ==
    LET kept == SelectSeq(comps, InValues)
    IN  [i \in 1..Len(kept) |->
            IF PyFloat(kept[i].market_value) = Raised THEN Raised
            ELSE 100 * PyFloat(kept[i].market_value)]

\* ppsf_list
PpsfSeries(comps) ==
    LET kept == SelectSeq(comps, InPpsf)
    IN  [i \in 1..Len(kept) |-> PyFloat(kept[i].ppsf)]

\* v put into the ascending list sq
InsertAscending(sq, v) ==
    LET k == Cardinality({i \in 1..Len(sq) : sq[i] <= v})
    IN  SubSeq(sq, 1, k) \o <<v>> \o SubSeq(sq, k + 1, Len(sq))

\* sorted(series)
RECURSIVE sorted(_)
sorted(series) ==
    IF series = <<>> THEN <<>>
    ELSE InsertAscending(sorted(Tail(series)), Head(series))

\* sum(s)
RECURSIVE SumOf(_)
SumOf(series) == IF series = <<>> THEN 0 ELSE Head(series) + SumOf(Tail(series))

\* the positions of q1 and q3 in the sorted list: int(0.25 * (n - 1)) and
\* int(0.75 * (n - 1)), counted from 1
LowerQuartile(n) == ((n - 1) \div 4) + 1
UpperQuartile(n) == ((3 * (n - 1)) \div 4) + 1

\* {'count': 0}: the block of an empty series has no other entry
EmptyBlock ==
    [count |-> 0, mean |-> PyNone, median |-> PyNone, min |-> PyNone, max |-> PyNone,
     q1 |-> PyNone, q3 |-> PyNone, iqr |-> PyNone, range |-> PyNone]

\* basic(series); mean and median are rounded to the hundredth (the
\* division is exact on series of whole amounts of up to four entries)
basic(series) ==
    IF series = <<>> THEN EmptyBlock
    ELSE LET s == sorted(series)
             n == Len(s)
             q1 == s[LowerQuartile(n)]
             q3 == s[UpperQuartile(n)]
         IN  [count |-> n,
              mean |-> (2 * SumOf(s) + n) \div (2 * n),
              median |-> IF n % 2 = 1 THEN s[(n \div 2) + 1]
                         ELSE (s[n \div 2] + s[(n \div 2) + 1]) \div 2,
              min |-> s[1], max |-> s[n], q1 |-> q1, q3 |-> q3,
              iqr |-> q3 - q1, range |-> s[n] - s[1]]

\* pool_match_rate / garage_match_rate in hundredths of a percent, PyNone
\* when the key is not set: no comp flag in (0, 1), or the subject's is not
match_rate(flags, subj_flag) ==
    LET known == SelectSeq(flags, IsFlag)
        same == Cardinality({i \in 1..Len(known) : known[i] = subj_flag})
    IN  IF known # <<>> /\ IsFlag(subj_flag)
        THEN (20000 * same + Len(known)) \div (2 * Len(known))
        ELSE PyNone

compute_pricing_stats(s, comps) ==
    LET idx == 1..Len(comps)
    IN  [raised |-> \E i \in idx :
                       InValues(comps[i]) /\ PyFloat(comps[i].market_value) = Raised,
         value_stats |-> basic(ValueSeries(comps)),
         ppsf_stats |-> basic(PpsfSeries(comps)),
         pool_match_rate |-> match_rate([i \in idx |-> comps[i].has_pool], s.has_pool),
         garage_match_rate |->
             match_rate([i \in idx |-> comps[i].has_garage], s.has_garage)]

(***************************************************************************)
(* The LRU list _CACHE: a sequence of <<key, value>>, most recent first.   *)
(***************************************************************************)
\* the positions of key in the list
CachePositions(c, key) == {i \in 1..Len(c) : c[i][1] = key}

\* the first position of key (enumerate stops at the first match)
CacheIndex(c, key) == CHOOSE i \in CachePositions(c, key) : \A j \in CachePositions(c, key) : i <= j

\* c.pop(i)
PopAt(c, i) == SubSeq(c, 1, i - 1) \o SubSeq(c, i + 1, Len(c))

\* A lookup that leaves the hit entry where it is
_cache_get_in_place(c, key, capacity) ==
    IF capacity <= 0 THEN [hit |-> FALSE, cache |-> c]
    ELSE [hit |-> CachePositions(c, key) # {}, cache |-> c]

\* _cache_get: [hit, value, cache], the hit entry moved to the front
_cache_get(c, key, capacity) ==
    IF capacity <= 0 THEN [hit |-> FALSE, cache |-> c]
    ELSE IF CachePositions(c, key) # {}
         THEN LET i == CacheIndex(c, key)
              IN  [hit |-> TRUE, cache |-> <<c[i]>> \o PopAt(c, i)]
         ELSE [hit |-> FALSE, cache |-> c]

\* the value a hit returns
CachedValue(c, key) == c[CacheIndex(c, key)][2]

\* A store that never drops the last entry
_cache_set_unbounded(c, key, value, capacity) ==
    IF capacity <= 0 THEN c
    ELSE <<(<<key, value>>)>>
         \o (IF CachePositions(c, key) # {} THEN PopAt(c, CacheIndex(c, key)) ELSE c)

\* _cache_set: the list after the call
_cache_set(c, key, value, capacity) ==
    IF capacity <= 0 THEN c
    ELSE LET removed == IF CachePositions(c, key) # {}
                        THEN PopAt(c, CacheIndex(c, key)) ELSE c
             inserted == <<(<<key, value>>)>> \o removed
         IN  IF Len(inserted) > capacity
             THEN SubSeq(inserted, 1, Len(inserted) - 1)
             ELSE inserted

cache_key(q) ==
    <<q.subject_account, q.max_comps, q.min_comps, q.radius_first_strict, q.max_radius>>

(***************************************************************************)
(* geo_sequences and the three candidate queries.                          *)
(***************************************************************************)
\* A tier order that starts with the postal code
geo_sequences_zip_first(s, q) ==
    <<[geo_label |-> "zip", radius_val |-> PyNone]>>
    \o (IF SubjectHasNbhd(s) THEN <<[geo_label |-> "neighborhood", radius_val |-> PyNone]>>
        ELSE <<>>)
    \o (IF SubjectHasGeo(s)
        THEN [i \in 1..Len(radius_tiers(q)) |->
                 [geo_label |-> "radius", radius_val |-> radius_tiers(q)[i]]]
        ELSE <<>>)

geo_sequences(s, q) ==
    (IF SubjectHasNbhd(s) THEN <<[geo_label |-> "neighborhood", radius_val |-> PyNone]>>
     ELSE <<>>)
    \o (IF SubjectHasGeo(s)
        THEN [i \in 1..Len(radius_tiers(q)) |->
                 [geo_label |-> "radius", radius_val |-> radius_tiers(q)[i]]]
        ELSE <<>>)
    \o <<[geo_label |-> "zip", radius_val |-> PyNone]>>

\* neighborhood_candidates: [queried, rows]
neighborhood_candidates(store, s) ==
    IF ~Truthy(s.nbhd) \/ s.nbhd = Blank THEN [queried |-> FALSE, rows |-> {}]
    ELSE [queried |-> TRUE,
          rows |-> {r \in store : r.acct # s.acct /\ r.nbhd # PyNone /\ r.nbhd = s.nbhd}]

\* radius_candidates: the bounding box of half-width radius / 69 degrees
radius_candidates(store, s, radius) ==
    IF ~SubjectHasGeo(s) THEN [queried |-> FALSE, rows |-> {}]
    ELSE [queried |-> TRUE,
          rows |-> {r \in store :
                      /\ r.acct # s.acct
                      /\ r.latitude >= 0 /\ r.longitude >= 0
                      /\ r.latitude >= s.latitude - radius
                      /\ r.latitude <= s.latitude + radius
                      /\ r.longitude >= s.longitude - radius
                      /\ r.longitude <= s.longitude + radius}]

\* zip_candidates
zip_candidates(store, s) ==
    IF ~Truthy(s.site_addr_3) THEN [queried |-> FALSE, rows |-> {}]
    ELSE [queried |-> TRUE,
          rows |-> {r \in store : r.acct # s.acct /\ r.site_addr_3 = s.site_addr_3}]

\* producer() of a tier
Producer(store, s, tier) ==
    IF tier.geo_label = "neighborhood" THEN neighborhood_candidates(store, s)
    ELSE IF tier.geo_label = "radius" THEN radius_candidates(store, s, tier.radius_val)
    ELSE zip_candidates(store, s)

\* cur.fetchall(): the rows in any order
Orders(rows) ==
    {f \in [1..Cardinality(rows) -> rows] : \A i, j \in DOMAIN f : i # j => f[i] # f[j]}

(***************************************************************************)
(* chosen_meta, its labels, and finalize_result.                           *)
(***************************************************************************)
NoneLabel == <<"None", 0, "">>
AnyLabel == <<"any", 0, "">>
\* f"±{int(band*100)}%"
PctLabel(b) == IF b = PyNone THEN AnyLabel ELSE <<"±", b, "%">>
\* f"±{band}y"
YearLabel(b) == IF b = PyNone THEN AnyLabel ELSE <<"±", b, "y">>
\* f"±{band}"
AbsLabel(b) == IF b = PyNone THEN AnyLabel ELSE <<"±", b, "">>
RuleLabel(mode) == <<mode, 0, "">>

baseline_meta_labels(s) ==
    [size_band |-> <<"±", 5, "%">>,
     lot_band |-> <<"±", 10, "%">>,
     year_band |-> <<"±", 5, "y">>,
     bed_bath_band |-> <<"±", 1, "">>,
     story_band |-> IF StoriesGiven(s) THEN <<"±", 0, "">> ELSE AnyLabel,
     pool_rule |-> <<"match", 0, "">>,
     garage_rule |-> <<"match", 0, "">>]

\* the band labels of an accepted combination
BandLabels(combo) ==
    [size_band |-> PctLabel(combo[1]),
     lot_band |-> PctLabel(combo[2]),
     year_band |-> YearLabel(combo[3]),
     bed_bath_band |-> AbsLabel(combo[4]),
     story_band |-> AbsLabel(combo[5]),
     pool_rule |-> RuleLabel(combo[6]),
     garage_rule |-> RuleLabel(combo[7])]

\* the band labels chosen_meta starts with: all None
NoBandLabels ==
    [size_band |-> NoneLabel, lot_band |-> NoneLabel, year_band |-> NoneLabel,
     bed_bath_band |-> NoneLabel, story_band |-> NoneLabel,
     pool_rule |-> NoneLabel, garage_rule |-> NoneLabel]

\* {k: chosen_meta.get(k) != v for k, v in baseline_meta_labels.items()}
RelaxedMap(labels, s) ==
    [k \in DOMAIN baseline_meta_labels(s) |-> labels[k] # baseline_meta_labels(s)[k]]

Meta(s, geo_label, radius_val, labels, attempts, stats) ==
    [geo_tier |-> geo_label,
     radius_miles |-> radius_val,
     bands |-> labels,
     attempts |-> attempts,
     subject_has_geo |-> (s.latitude # PyNone /\ s.longitude # PyNone),
     used_neighborhood |-> (geo_label = "neighborhood"),
     scoring_weights |-> SCORING_WEIGHTS,
     baseline |-> baseline_meta_labels(s),
     relaxed |-> RelaxedMap(labels, s),
     pricing_stats |-> [value_stats |-> [count |-> stats.value_stats.count],
                        ppsf_stats |-> [count |-> stats.ppsf_stats.count]]]

\* the scored records, in list order
Scored(comps, s) ==
    [i \in 1..Len(comps) |->
        [comps[i] EXCEPT !.score = compute_score(comps[i], s, SCORING_WEIGHTS)]]

\* finalize_result: [raised, result]; compute_pricing_stats may raise
finalize_result(selected, s, geo_label, radius_val, combo, attempts) ==
    LET comps == SortComps(Scored(selected, s))
        stats == compute_pricing_stats(s, comps)
    IN  [raised |-> stats.raised,
         result |-> [subject |-> s, comps |-> comps,
                     meta |-> Meta(s, geo_label, radius_val, BandLabels(combo),
                                   attempts, stats)]]

\* the result when no combination of any tier reached min_comps
empty_result(s, attempts) ==
    [subject |-> s, comps |-> <<>>,
     meta |-> Meta(s, "None", PyNone, NoBandLabels, attempts,
                   compute_pricing_stats(s, <<>>))]

(***************************************************************************)
(* The data the model draws its stores and requests from.                  *)
(***************************************************************************)
MaxComps == 2
MaxCalls == 2

SubjectAcct == "S"

\* a subject row with every attribute known
FullSubject ==
    [acct |-> SubjectAcct, site_addr_3 |-> 77002, market_value |-> 300000,
     land_area |-> 8000, building_area |-> 2000, build_year |-> 2000,
     bedrooms |-> 3, bathrooms |-> 2, stories |-> 2, has_pool |-> 1,
     has_garage |-> 1, latitude |-> 100, longitude |-> 100, nbhd |-> 8014]

\* the subject rows: attributes known, unknown or malformed, and every
\* presence of neighborhood code, coordinates and postal code
SubjectVariants ==
    {FullSubject,
     [FullSubject EXCEPT !.has_pool = PyNone],
     [FullSubject EXCEPT !.stories = PyNone, !.has_garage = PyNone],
     [FullSubject EXCEPT !.building_area = Malformed, !.build_year = Malformed,
                         !.market_value = Malformed],
     [FullSubject EXCEPT !.nbhd = PyNone, !.latitude = PyNone, !.longitude = PyNone,
                         !.site_addr_3 = PyNone],
     [FullSubject EXCEPT !.nbhd = PyNone, !.site_addr_3 = PyNone],
     [FullSubject EXCEPT !.nbhd = PyNone, !.latitude = PyNone, !.longitude = PyNone]}

\* the attributes of a candidate: equal to the full subject's, 8% larger,
\* without pool, with a malformed market value, or 30% larger, 15 years
\* younger and a story higher
CandidateAttrs ==
    <<FullSubject,
      [FullSubject EXCEPT !.building_area = 2160],
      [FullSubject EXCEPT !.has_pool = 0],
      [FullSubject EXCEPT !.market_value = Malformed],
      [FullSubject EXCEPT !.building_area = 2600, !.build_year = 2015, !.stories = 3]>>

\* where a candidate lies: <<nbhd, latitude, longitude, site_addr_3>>.
\* (109,112) is 1.5 mi from the subject; (115,108) is 1.7 mi, inside the
\* 1.5 mi bounding box and outside its circle; (100200,100) is 10,010 mi
\* away, as coordinates of the far side of the globe are
CandidatePlaces ==
    <<(<<8014, 109, 112, 77002>>),
      (<<8015, 115, 108, 77003>>),
      (<<8015, PyNone, PyNone, 77002>>),
      (<<8014, PyNone, PyNone, 77003>>),
      (<<8014, 100200, 100, 77003>>)>>

CandidateRow(acct, a, p) ==
    [CandidateAttrs[a] EXCEPT !.acct = acct, !.nbhd = CandidatePlaces[p][1],
                              !.latitude = CandidatePlaces[p][2],
                              !.longitude = CandidatePlaces[p][3],
                              !.site_addr_3 = CandidatePlaces[p][4]]

\* the profiles <<a, p>> of a candidate: attributes a at place p
Profiles ==
    <<(<<1, 1>>), (<<1, 2>>), (<<2, 1>>), (<<3, 1>>), (<<4, 1>>),
      (<<1, 3>>), (<<1, 4>>), (<<2, 3>>)>>

NProfiles == Len(Profiles)
Profile(n) == Profiles[n]

\* the candidate rows of profiles i <= j (0: no such row) for accounts A, B
CandidateRows(i, j) ==
    (IF i = 0 THEN {} ELSE {CandidateRow("A", Profile(i)[1], Profile(i)[2])})
    \cup (IF j = 0 THEN {} ELSE {CandidateRow("B", Profile(j)[1], Profile(j)[2])})

Stores ==
    {{s} \cup CandidateRows(ij[1], ij[2]) :
        s \in SubjectVariants,
        ij \in {p \in (0..NProfiles) \X (0..NProfiles) : p[1] <= p[2]}}

\* the stores of the runs with several calls: the subject complete or
\* with coordinates only; the candidates equal to it inside or outside the
\* first circle, larger, or with a malformed market value
CacheStores ==
    {{s} \cup CandidateRows(ij[1], ij[2]) :
        s \in {FullSubject,
               [FullSubject EXCEPT !.nbhd = PyNone, !.site_addr_3 = PyNone]},
        ij \in {<<0, 0>>, <<0, 2>>, <<1, 1>>, <<1, 2>>, <<2, 2>>, <<2, 3>>, <<1, 5>>}}

\* the requests of a caller that keeps min_comps <= max_comps
Requests ==
    {q \in [subject_account : {SubjectAcct}, max_comps : 0..MaxComps,
            min_comps : 0..MaxComps, radius_first_strict : BOOLEAN,
            max_radius : {PyNone, RADIUS_TIERS[1]}] :
        q.min_comps <= q.max_comps}

\* the requests a client repeats: one request, or a request for exactly
\* one comparable in both settings of radius_first_strict
Callers ==
    {{q} : q \in Requests}
    \cup {{q, [q EXCEPT !.radius_first_strict = TRUE]} :
            q \in {r \in Requests : ~r.radius_first_strict /\ r.min_comps = 1
                                    /\ r.max_comps = 1}}

(***************************************************************************)
(* State.                                                                  *)
(***************************************************************************)
VARIABLES
    store,          \* the rows of the backing store
    cache_max,      \* the configured CACHE_MAX_ENTRIES
    _CACHE,         \* the module-level LRU list
    pc,             \* "idle", or "search" inside the tier loop of find_comps
    req,            \* the arguments of the current (or last) call
    subject,        \* the subject row the call loaded: {} or {row}
    geo_idx,        \* the position of the tier loop in geo_sequences
    attempts,       \* the local counter attempts
    ret,            \* how the last call ended: [kind, value]
    caller,         \* the requests the client of this run issues
    calls_left,     \* calls the client may still make
    fetch_log,      \* the queries the call issued, in order
    tier_evals,     \* per visited tier, the number of combinations evaluated
    accepted,       \* the tier and combination the call accepted
    cache_at_call,  \* _CACHE when the call started
    store_at_call,  \* store when the call started
    prev,           \* the call before: [valid, req, ret, accepted, store]
    cache_log,      \* the keys a _cache_get hit or a _cache_set stored, in order
    probe,          \* the arguments of a direct call of passes, compute_score
                    \* or compute_pricing_stats
    verdict,        \* what the direct calls returned
    threads         \* per concurrent request, where it stands in its cache calls

vars ==
    <<store, cache_max, _CACHE, pc, req, subject, geo_idx, attempts, ret,
      caller, calls_left, fetch_log, tier_evals, accepted, cache_at_call,
      store_at_call, prev, cache_log, probe, verdict, threads>>

NoRequest ==
    [subject_account |-> SubjectAcct, max_comps |-> 0, min_comps |-> 0,
     radius_first_strict |-> FALSE, max_radius |-> PyNone]

NoValue == [subject |-> {}, comps |-> <<>>, meta |-> {}]

NoReturn == [kind |-> "none", value |-> NoValue]

NotAccepted == [geo_label |-> "None", radius_val |-> PyNone, bands |-> NoBandLabels]

\* no direct call: the full subject against itself, no dimension bounded
NoProbe ==
    [s |-> FullSubject, c |-> FullSubject, d |-> 0, band |-> PyNone, mode |-> "any",
     comps |-> <<>>]

\* no statistics computed
NoStats ==
    [raised |-> FALSE, value_stats |-> EmptyBlock, ppsf_stats |-> EmptyBlock,
     pool_match_rate |-> PyNone, garage_match_rate |-> PyNone]

NoVerdict == [filtered |-> FALSE, passed |-> FALSE, scored |-> FALSE, score |-> 0,
              penalty |-> 0, raw |-> 0, summarised |-> FALSE, stats |-> NoStats]

\* a request's place in its cache calls: the key, the call ("get", "set"),
\* the step it is at, the index its scan found and the entry its pop took
ThreadAt(key, op, at) ==
    [key |-> key, op |-> op, pc |-> at, i |-> 0,
     item |-> <<key, empty_result(FullSubject, 0)>>]

\* no concurrent request
NoThreads == [t \in {1, 2} |-> ThreadAt(cache_key(NoRequest), "get", "done")]

InitCommon ==
    /\ threads = NoThreads
    /\ _CACHE = <<>>
    /\ pc = "idle"
    /\ req = NoRequest
    /\ subject = {}
    /\ geo_idx = 0
    /\ attempts = 0
    /\ ret = NoReturn
    /\ fetch_log = <<>>
    /\ tier_evals = <<>>
    /\ accepted = NotAccepted
    /\ cache_at_call = <<>>
    /\ store_at_call = {}
    /\ prev = [valid |-> FALSE, req |-> NoRequest, ret |-> NoReturn,
               accepted |-> NotAccepted, store |-> {}]
    /\ cache_log = <<>>
    /\ verdict = NoVerdict

\* one call against any store, the cache as configured
Init ==
    /\ store \in Stores
    /\ cache_max = CACHE_MAX_ENTRIES
    /\ caller = Requests
    /\ calls_left = 1
    /\ probe = NoProbe
    /\ InitCommon

\* a client repeating its requests, the cache as configured or disabled
InitCache ==
    /\ store \in CacheStores
    /\ cache_max \in {0, CACHE_MAX_ENTRIES}
    /\ caller \in Callers
    /\ calls_left = MaxCalls
    /\ probe = NoProbe
    /\ InitCommon

(***************************************************************************)
(* find_comps.  Call runs it from the subject SELECT to the cache probe;   *)
(* SearchTier is one round of the loop over geo_sequences; Exhausted is    *)
(* the code behind the loop.                                               *)
(***************************************************************************)
SubjectFetch == [geo_label |-> "subject", radius_val |-> PyNone]

\* the log of cache accesses after a _cache_set: with no capacity the set
\* returns before it touches the list
Stored(log, key, capacity) == IF capacity <= 0 THEN log ELSE Append(log, key)

\* A prologue that probes the cache before it loads the subject
CallOutcomeCacheFirst(rows, c, key, capacity) ==
    IF _cache_get(c, key, capacity).hit THEN "hit"
    ELSE IF rows = {} THEN "NotFound"
    ELSE "miss"

\* how the call leaves its prologue: the subject SELECT comes first and
\* raises ValueError when there is no row; the cache is probed after it
CallOutcome(rows, c, key, capacity) ==
    IF rows = {} THEN "NotFound"
    ELSE IF _cache_get(c, key, capacity).hit THEN "hit"
    ELSE "miss"

\* the tier and combination recorded in a result's meta
AcceptedOf(result) ==
    [geo_label |-> result.meta.geo_tier, radius_val |-> result.meta.radius_miles,
     bands |-> result.meta.bands]

Call(q) ==
    /\ pc = "idle"
    /\ q \in caller
    /\ calls_left > 0
    /\ calls_left' = calls_left - 1
    /\ req' = q
    /\ prev' = IF ret.kind # "none"
               THEN [valid |-> TRUE, req |-> req, ret |-> ret, accepted |-> accepted,
                     store |-> store_at_call]
               ELSE prev
    /\ cache_at_call' = _CACHE
    /\ store_at_call' = store
    /\ fetch_log' = <<SubjectFetch>>
    /\ tier_evals' = <<>>
    /\ attempts' = 0
    /\ LET rows == SubjectRows(store, q.subject_account)
           outcome == CallOutcome(rows, _CACHE, cache_key(q), cache_max)
       IN  /\ subject' = rows
           /\ IF outcome = "NotFound"
              THEN /\ ret' = [kind |-> "NotFound", value |-> NoValue]
                   /\ pc' = "idle"
                   /\ geo_idx' = 0
                   /\ accepted' = NotAccepted
                   /\ UNCHANGED <<_CACHE, cache_log>>
              ELSE IF outcome = "hit"
              THEN /\ ret' = [kind |-> "result",
                              value |-> CachedValue(_CACHE, cache_key(q))]
                   /\ _CACHE' = _cache_get(_CACHE, cache_key(q), cache_max).cache
                   /\ cache_log' = Append(cache_log, cache_key(q))
                   /\ pc' = "idle"
                   /\ geo_idx' = 0
                   /\ accepted' = AcceptedOf(CachedValue(_CACHE, cache_key(q)))
              ELSE /\ ret' = NoReturn
                   /\ pc' = "search"
                   /\ geo_idx' = 1
                   /\ accepted' = NotAccepted
                   /\ UNCHANGED <<_CACHE, cache_log>>
    /\ UNCHANGED <<threads, store, cache_max, caller, probe, verdict>>

\* the subject row of the running call
Subj == CHOOSE s \in subject : TRUE

SearchTier ==
    /\ pc = "search"
    /\ geo_idx <= Len(geo_sequences(Subj, req))
    /\ LET s == Subj
           tier == geo_sequences(s, req)[geo_idx]
           fetched == Producer(store, s, tier)
       IN  /\ fetch_log' = IF fetched.queried THEN Append(fetch_log, tier) ELSE fetch_log
           /\ \E candidates_all \in Orders(fetched.rows) :
              \E out \in {TierOutcome(candidates_all, s, req, tier.radius_val)} :
                /\ attempts' = attempts + out.tried
                /\ tier_evals' = Append(tier_evals, out.tried)
                /\ IF out.k # 0
                   THEN \E fin \in {finalize_result(out.selected, s, tier.geo_label,
                                                    tier.radius_val, out.combo,
                                                    attempts + out.tried)} :
                          /\ accepted' = [geo_label |-> tier.geo_label,
                                          radius_val |-> tier.radius_val,
                                          bands |-> BandLabels(out.combo)]
                          /\ pc' = "idle"
                          /\ geo_idx' = geo_idx
                          /\ IF fin.raised
                             THEN /\ ret' = [kind |-> "ValueError", value |-> NoValue]
                                  /\ UNCHANGED <<_CACHE, cache_log>>
                             ELSE /\ ret' = [kind |-> "result", value |-> fin.result]
                                  /\ _CACHE' = _cache_set(_CACHE, cache_key(req),
                                                          fin.result, cache_max)
                                  /\ cache_log' = Stored(cache_log, cache_key(req),
                                                         cache_max)
                   ELSE /\ geo_idx' = geo_idx + 1
                        /\ UNCHANGED <<pc, ret, accepted, _CACHE, cache_log>>
    /\ UNCHANGED <<threads, store, cache_max, req, subject, caller, calls_left, cache_at_call,
                   store_at_call, prev, probe, verdict>>

Exhausted ==
    /\ pc = "search"
    /\ geo_idx > Len(geo_sequences(Subj, req))
    /\ LET result == empty_result(Subj, attempts)
       IN  /\ ret' = [kind |-> "result", value |-> result]
           /\ _CACHE' = _cache_set(_CACHE, cache_key(req), result, cache_max)
           /\ cache_log' = Stored(cache_log, cache_key(req), cache_max)
    /\ pc' = "idle"
    /\ UNCHANGED <<threads, store, cache_max, req, subject, geo_idx, attempts, caller,
                   calls_left, fetch_log, tier_evals, accepted, cache_at_call,
                   store_at_call, prev, probe, verdict>>

\* the import pipeline rewrites the store between two requests: the
\* subject's row is gone
DeleteSubject ==
    /\ pc = "idle"
    /\ calls_left > 0
    /\ SubjectRows(store, SubjectAcct) # {}
    /\ store' = store \ SubjectRows(store, SubjectAcct)
    /\ UNCHANGED <<threads, cache_max, _CACHE, pc, req, subject, geo_idx, attempts, ret,
                   caller, calls_left, fetch_log, tier_evals, accepted, cache_at_call,
                   store_at_call, prev, cache_log, probe, verdict>>

Next ==
    \/ \E q \in caller : Call(q)
    \/ SearchTier
    \/ Exhausted
    \/ DeleteSubject

Spec == Init /\ [][Next]_vars

SpecCache == InitCache /\ [][Next]_vars

(***************************************************************************)
(* passes and compute_score called directly, one dimension at a time: the  *)
(* subject and the candidate differ from the full subject in the field of  *)
(* dimension d only, and only the band of d is bounded.  Dimensions 6 and  *)
(* 7 are the pool and garage flags under their rule; dimension 8 stands    *)
(* for a candidate that differs in every field, no band bounded.           *)
(***************************************************************************)
\* the dimensions with a numeric band: size, lot, year, beds, stories
NumericDims == {1, 2, 3, 4, 5}

\* the band list of dimension d in config.py, whole
ConfigBands(d) ==
    IF d = 1 THEN SIZE_BANDS
    ELSE IF d = 2 THEN LOT_BANDS
    ELSE IF d = 3 THEN YEAR_BANDS
    ELSE IF d = 4 THEN BED_BATH_BANDS
    ELSE STORY_TOLERANCES

\* the row with the field of dimension d set to v
WithField(row, d, v) ==
    IF d = 1 THEN [row EXCEPT !.building_area = v]
    ELSE IF d = 2 THEN [row EXCEPT !.land_area = v]
    ELSE IF d = 3 THEN [row EXCEPT !.build_year = v]
    ELSE IF d = 4 THEN [row EXCEPT !.bedrooms = v]
    ELSE IF d = 5 THEN [row EXCEPT !.stories = v]
    ELSE IF d = 6 THEN [row EXCEPT !.has_pool = v]
    ELSE [row EXCEPT !.has_garage = v]

FieldOf(row, d) ==
    IF d = 1 THEN row.building_area
    ELSE IF d = 2 THEN row.land_area
    ELSE IF d = 3 THEN row.build_year
    ELSE IF d = 4 THEN row.bedrooms
    ELSE IF d = 5 THEN row.stories
    ELSE IF d = 6 THEN row.has_pool
    ELSE row.has_garage

\* the raw values a column can hold besides a usable number
RawValues == {PyNone, Blank, ZeroStr, 0, Malformed}

\* the distance between two candidate values of dimension d
FieldStep(d) ==
    IF d = 1 THEN 100 ELSE IF d = 2 THEN 800 ELSE IF d = 3 THEN 5 ELSE 1

SubjectValues(d) == RawValues \cup {FieldOf(FullSubject, d)}

CandidateValues(d) ==
    RawValues \cup {FieldOf(FullSubject, d) + j * FieldStep(d) : j \in -1..3}

\* the combination that bounds dimension d by band and nothing else
OnlyDim(d, band) ==
    [i \in 1..7 |-> IF i = d THEN band ELSE IF i \in {6, 7} THEN "any" ELSE PyNone]

\* the values of a flag column: 0, 1, NULL, or a string
FlagValues == {PyNone, Blank, Malformed, 0, 1}

\* candidates that differ from the full subject in every field: 15 miles
\* away and off by the full scale of every dimension, or 10 miles away
\* with a bedroom and a bathroom more
DistantCandidates ==
    {[FullSubject EXCEPT !.acct = "A", !.building_area = 2600, !.build_year = 2015,
                         !.bedrooms = 5, !.bathrooms = 4, !.stories = 3,
                         !.has_pool = 0, !.has_garage = 0, !.latitude = 250],
     [FullSubject EXCEPT !.acct = "A", !.building_area = 2600, !.build_year = 1985,
                         !.bedrooms = 4, !.bathrooms = 3, !.stories = 3,
                         !.has_pool = 0, !.has_garage = 0, !.latitude = 200]}

Probes ==
    UNION {[s : {WithField(FullSubject, d, sv) : sv \in SubjectValues(d)},
            c : {WithField([FullSubject EXCEPT !.acct = "A"], d, cv) :
                    cv \in CandidateValues(d)},
            d : {d},
            band : {ConfigBands(d)[i] : i \in 1..Len(ConfigBands(d))},
            mode : {"any"},
            comps : {<<>>}] :
           d \in NumericDims}
    \cup UNION {[s : {WithField(FullSubject, d, sv) : sv \in FlagValues},
                 c : {WithField([FullSubject EXCEPT !.acct = "A"], d, cv) :
                         cv \in FlagValues},
                 d : {d},
                 band : {PyNone},
                 mode : {"match", "any"},
                 comps : {<<>>}] :
                d \in {6, 7}}
    \cup [s : {FullSubject}, c : DistantCandidates, d : {8}, band : {PyNone},
          mode : {"any"}, comps : {<<>>}]

\* the penalty compute_score adds for dimension d
DimPenalty(d, r, s, weights) ==
    IF d = 1 THEN SizePenalty(r, s, weights.size)
    ELSE IF d = 3 THEN YearPenalty(r, s, weights.year)
    ELSE IF d = 4 THEN CountPenalty(r.bedrooms, _float(s.bedrooms), weights.beds_baths)
    ELSE IF d = 5 THEN StoriesPenalty(r, s, weights.stories)
    ELSE IF d = 6 THEN FlagPenalty(r.has_pool, s.has_pool, weights.pool_garage)
    ELSE IF d = 7 THEN FlagPenalty(r.has_garage, s.has_garage, weights.pool_garage)
    ELSE 0

InitPure ==
    /\ probe \in Probes
    /\ store = {}
    /\ cache_max = CACHE_MAX_ENTRIES
    /\ caller = {}
    /\ calls_left = 0
    /\ InitCommon

ApplyPasses ==
    /\ probe.d # 0
    /\ ~verdict.filtered
    /\ verdict' = [verdict EXCEPT !.filtered = TRUE,
                       !.passed = passes(probe.c, probe.s,
                                         OnlyDim(probe.d, IF probe.d \in {6, 7}
                                                          THEN probe.mode
                                                          ELSE probe.band))]
    /\ UNCHANGED <<threads, store, cache_max, _CACHE, pc, req, subject, geo_idx, attempts, ret,
                   caller, calls_left, fetch_log, tier_evals, accepted, cache_at_call,
                   store_at_call, prev, cache_log, probe>>

ApplyScore ==
    /\ probe.d # 0
    /\ ~verdict.scored
    /\ LET rec == materialize_candidate(probe.c, probe.s, PyNone)
       IN  verdict' = [verdict EXCEPT !.scored = TRUE,
                           !.score = compute_score(rec, probe.s, SCORING_WEIGHTS),
                           !.penalty = DimPenalty(probe.d, rec, probe.s, SCORING_WEIGHTS),
                           !.raw = penalties(rec, probe.s, SCORING_WEIGHTS)]
    /\ UNCHANGED <<threads, store, cache_max, _CACHE, pc, req, subject, geo_idx, attempts, ret,
                   caller, calls_left, fetch_log, tier_evals, accepted, cache_at_call,
                   store_at_call, prev, cache_log, probe>>

NextPure == ApplyPasses \/ ApplyScore

SpecPure == InitPure /\ [][NextPure]_vars

(***************************************************************************)
(* compute_pricing_stats called directly on every list of up to MaxSample  *)
(* comps, for a subject with and without a known pool flag.                *)
(***************************************************************************)
MaxSample == 3

\* <<tot_mkt_val, im_sq_ft, has_pool>> of a comp: three priced ones with
\* different pool flags; one without market value; one without area (no
\* ppsf); one with a malformed market value; one with market value '0'
SampleRows ==
    {<<300000, 2000, 1>>, <<200000, 2000, 0>>, <<400000, 2000, PyNone>>,
     <<PyNone, 2000, 1>>, <<250000, PyNone, 0>>, <<Malformed, 2000, 1>>,
     <<ZeroStr, 2000, 0>>}

\* the comp record of a row
SampleComp(row) ==
    materialize_candidate([FullSubject EXCEPT !.acct = "A", !.market_value = row[1],
                                              !.building_area = row[2],
                                              !.has_pool = row[3]],
                          FullSubject, PyNone)

\* the lists of at most MaxSample comps
Samples ==
    UNION {[1..n -> {SampleComp(row) : row \in SampleRows}] : n \in 0..MaxSample}

StatsProbes ==
    [s : {[FullSubject EXCEPT !.has_pool = v] : v \in {PyNone, 0, 1}},
     c : {FullSubject}, d : {9}, band : {PyNone}, mode : {"any"}, comps : Samples]

InitStats ==
    /\ probe \in StatsProbes
    /\ store = {}
    /\ cache_max = CACHE_MAX_ENTRIES
    /\ caller = {}
    /\ calls_left = 0
    /\ InitCommon

ApplyStats ==
    /\ probe.d = 9
    /\ ~verdict.summarised
    /\ verdict' = [verdict EXCEPT !.summarised = TRUE,
                       !.stats = compute_pricing_stats(probe.s, probe.comps)]
    /\ UNCHANGED <<threads, store, cache_max, _CACHE, pc, req, subject, geo_idx, attempts, ret,
                   caller, calls_left, fetch_log, tier_evals, accepted, cache_at_call,
                   store_at_call, prev, cache_log, probe>>

NextStats == ApplyStats

SpecStats == InitStats /\ [][NextStats]_vars

(***************************************************************************)
(* _cache_get and _cache_set called directly, in any order, under every    *)
(* configured capacity from -1 to MaxCapacity.                             *)
(***************************************************************************)
MaxCapacity == 2
MaxKeys == 3
MaxOps == 4

\* the keys of the requests for 1..MaxKeys comparables
LRUKeys == {cache_key([NoRequest EXCEPT !.max_comps = n]) : n \in 1..MaxKeys}

\* two results to tell a replaced entry from the one before
LRUValues == {empty_result(FullSubject, n) : n \in {0, 1}}

InitLRU ==
    /\ cache_max \in -1..MaxCapacity
    /\ calls_left = MaxOps
    /\ store = {}
    /\ caller = {}
    /\ probe = NoProbe
    /\ InitCommon

CacheGet(key) ==
    /\ calls_left > 0
    /\ calls_left' = calls_left - 1
    /\ LET got == _cache_get(_CACHE, key, cache_max)
       IN  /\ _CACHE' = got.cache
           /\ ret' = IF got.hit
                     THEN [kind |-> "hit", value |-> CachedValue(_CACHE, key)]
                     ELSE [kind |-> "miss", value |-> NoValue]
           /\ cache_log' = IF got.hit THEN Append(cache_log, key) ELSE cache_log
    /\ UNCHANGED <<threads, store, cache_max, pc, req, subject, geo_idx, attempts, caller,
                   fetch_log, tier_evals, accepted, cache_at_call, store_at_call,
                   prev, probe, verdict>>

CacheSet(key, value) ==
    /\ calls_left > 0
    /\ calls_left' = calls_left - 1
    /\ _CACHE' = _cache_set(_CACHE, key, value, cache_max)
    /\ cache_log' = Stored(cache_log, key, cache_max)
    /\ ret' = [kind |-> "set", value |-> NoValue]
    /\ UNCHANGED <<threads, store, cache_max, pc, req, subject, geo_idx, attempts, caller,
                   fetch_log, tier_evals, accepted, cache_at_call, store_at_call,
                   prev, probe, verdict>>

NextLRU ==
    \/ \E key \in LRUKeys : CacheGet(key)
    \/ \E key \in LRUKeys, value \in LRUValues : CacheSet(key, value)

SpecLRU == InitLRU /\ [][NextLRU]_vars

(***************************************************************************)
(* Two requests of find_comps running at once on the unguarded _CACHE.     *)
(* Each probes the cache with its key (_cache_get) and, on a miss, stores  *)
(* its result (_cache_set).  The calls interleave between their steps: the *)
(* scan of the list, pop(i), insert(0, ...), the length test and pop().    *)
(***************************************************************************)
MaxRaceKeys == 2

RaceKeys == {cache_key([NoRequest EXCEPT !.max_comps = n]) : n \in 1..MaxRaceKeys}

\* the lists sequential calls leave under a capacity: distinct keys, no
\* more entries than the capacity
RaceCaches(capacity) ==
    {c \in UNION {[1..n -> {<<key, empty_result(FullSubject, 0)>> : key \in RaceKeys}] :
                     n \in 0..capacity} :
        \A i, j \in DOMAIN c : i # j => c[i][1] # c[j][1]}

InitRace ==
    /\ cache_max \in 1..MaxCapacity
    /\ _CACHE \in RaceCaches(cache_max)
    /\ threads \in [{1, 2} -> {ThreadAt(key, "get", "scan") : key \in RaceKeys}]
    /\ store = {}
    /\ caller = {}
    /\ calls_left = 0
    /\ probe = NoProbe
    /\ pc = "idle"
    /\ req = NoRequest
    /\ subject = {}
    /\ geo_idx = 0
    /\ attempts = 0
    /\ ret = NoReturn
    /\ fetch_log = <<>>
    /\ tier_evals = <<>>
    /\ accepted = NotAccepted
    /\ cache_at_call = <<>>
    /\ store_at_call = {}
    /\ prev = [valid |-> FALSE, req |-> NoRequest, ret |-> NoReturn,
               accepted |-> NotAccepted, store |-> {}]
    /\ cache_log = <<>>
    /\ verdict = NoVerdict

\* what a step of request t leaves alone
RaceFrame ==
    UNCHANGED <<store, cache_max, pc, req, subject, geo_idx, attempts, ret, caller,
                calls_left, fetch_log, tier_evals, accepted, cache_at_call,
                store_at_call, prev, cache_log, probe, verdict>>

\* _cache_get, the loop: on a match the request goes on to pop(i); without
\* one the call returns None and the request, its search done, calls
\* _cache_set
GetScan(t) ==
    /\ threads[t].op = "get" /\ threads[t].pc = "scan"
    /\ threads' = [threads EXCEPT ![t] =
          IF CachePositions(_CACHE, threads[t].key) # {}
          THEN [@ EXCEPT !.pc = "pop", !.i = CacheIndex(_CACHE, threads[t].key)]
          ELSE [@ EXCEPT !.op = "set", !.pc = "scan"]]
    /\ UNCHANGED _CACHE
    /\ RaceFrame

\* _CACHE.pop(i) of either call: IndexError when the list got shorter
PopStep(t) ==
    /\ threads[t].pc = "pop"
    /\ IF threads[t].i > Len(_CACHE)
       THEN /\ threads' = [threads EXCEPT ![t].pc = "error"]
            /\ UNCHANGED _CACHE
       ELSE /\ threads' = [threads EXCEPT ![t].pc = "insert",
                                          ![t].item = _CACHE[threads[t].i]]
            /\ _CACHE' = PopAt(_CACHE, threads[t].i)
    /\ RaceFrame

\* _cache_get: _CACHE.insert(0, <the popped entry>); return v
GetInsert(t) ==
    /\ threads[t].op = "get" /\ threads[t].pc = "insert"
    /\ _CACHE' = <<threads[t].item>> \o _CACHE
    /\ threads' = [threads EXCEPT ![t].pc = "done"]
    /\ RaceFrame

\* _cache_set, the loop: pop(i) on a match, else straight to the insert
SetScan(t) ==
    /\ threads[t].op = "set" /\ threads[t].pc = "scan"
    /\ threads' = [threads EXCEPT ![t] =
          IF CachePositions(_CACHE, threads[t].key) # {}
          THEN [@ EXCEPT !.pc = "pop", !.i = CacheIndex(_CACHE, threads[t].key)]
          ELSE [@ EXCEPT !.pc = "insert"]]
    /\ UNCHANGED _CACHE
    /\ RaceFrame

\* _cache_set: _CACHE.insert(0, (key, value))
SetInsert(t) ==
    /\ threads[t].op = "set" /\ threads[t].pc = "insert"
    /\ _CACHE' = <<(<<threads[t].key, empty_result(FullSubject, 1)>>)>> \o _CACHE
    /\ threads' = [threads EXCEPT ![t].pc = "len"]
    /\ RaceFrame

\* _cache_set: if len(_CACHE) > CACHE_MAX_ENTRIES
SetLen(t) ==
    /\ threads[t].pc = "len"
    /\ threads' = [threads EXCEPT ![t].pc =
                      IF Len(_CACHE) > cache_max THEN "tailpop" ELSE "done"]
    /\ UNCHANGED _CACHE
    /\ RaceFrame

\* _cache_set: _CACHE.pop(); IndexError on an empty list
SetTailPop(t) ==
    /\ threads[t].pc = "tailpop"
    /\ IF _CACHE = <<>>
       THEN /\ threads' = [threads EXCEPT ![t].pc = "error"]
            /\ UNCHANGED _CACHE
       ELSE /\ threads' = [threads EXCEPT ![t].pc = "done"]
            /\ _CACHE' = SubSeq(_CACHE, 1, Len(_CACHE) - 1)
    /\ RaceFrame

NextRace ==
    \E t \in {1, 2} :
        \/ GetScan(t)
        \/ PopStep(t)
        \/ GetInsert(t)
        \/ SetScan(t)
        \/ SetInsert(t)
        \/ SetLen(t)
        \/ SetTailPop(t)

SpecRace == InitRace /\ [][NextRace]_vars

(***************************************************************************)
(* One call of find_comps under every max_radius around the first radius   *)
(* tiers, against stores whose candidates lie in different tiers.          *)
(***************************************************************************)
\* the rows of candidates A and B with profiles pa and pb (<<0, 0>>: none)
RowsOf(pa, pb) ==
    (IF pa[1] = 0 THEN {} ELSE {CandidateRow("A", pa[1], pa[2])})
    \cup (IF pb[1] = 0 THEN {} ELSE {CandidateRow("B", pb[1], pb[2])})

\* the subject complete, with coordinates only, or with postal code only
TierSubjects ==
    {FullSubject,
     [FullSubject EXCEPT !.nbhd = PyNone, !.site_addr_3 = PyNone],
     [FullSubject EXCEPT !.nbhd = PyNone, !.latitude = PyNone, !.longitude = PyNone]}

\* no candidate; one in the neighborhood, in the second circle only, or in
\* the postal code only; a larger one; two that need different bands
\* relaxed; one without coordinates beside one on the far side of the globe
TierProfiles ==
    {<<(<<0, 0>>), (<<0, 0>>)>>,
     <<(<<1, 1>>), (<<0, 0>>)>>,
     <<(<<1, 2>>), (<<0, 0>>)>>,
     <<(<<1, 3>>), (<<0, 0>>)>>,
     <<(<<2, 1>>), (<<0, 0>>)>>,
     <<(<<2, 1>>), (<<1, 2>>)>>,
     <<(<<3, 1>>), (<<2, 1>>)>>,
     <<(<<1, 1>>), (<<2, 2>>)>>,
     <<(<<1, 5>>), (<<5, 4>>)>>}

TierStores == {{s} \cup RowsOf(ab[1], ab[2]) : s \in TierSubjects, ab \in TierProfiles}

\* max_radius absent, below every tier, on a tier, or between two tiers
TierRequests ==
    {q \in [subject_account : {SubjectAcct}, max_comps : 0..MaxComps,
            min_comps : 0..MaxComps, radius_first_strict : BOOLEAN,
            max_radius : {PyNone, RADIUS_TIERS[1] - 5, RADIUS_TIERS[1],
                          RADIUS_TIERS[1] + 5}] :
        q.min_comps <= q.max_comps}

InitTiers ==
    /\ store \in TierStores
    /\ cache_max = CACHE_MAX_ENTRIES
    /\ caller = TierRequests
    /\ calls_left = 1
    /\ probe = NoProbe
    /\ InitCommon

SpecTiers == InitTiers /\ [][Next]_vars

(***************************************************************************)
(* Properties of find_comps.                                               *)
(***************************************************************************)
\* the last call has ended
Returned == pc = "idle" /\ ret.kind # "none"

\* the last call loaded its subject and ended with a result
ReturnedResult == Returned /\ ret.kind = "result" /\ subject # {}

NbhdTier == [geo_label |-> "neighborhood", radius_val |-> PyNone]

RadiusTier(q, i) == [geo_label |-> "radius", radius_val |-> radius_tiers(q)[i]]

\* the candidates of a tier that match under combo: they pass the filter
\* and the radius re-check keeps them
Matches(st, s, tier, combo) ==
    {r \in Producer(st, s, tier).rows :
        passes(r, s, combo) /\ ~DroppedByRadius(r, s, tier.radius_val)}

\* every combination of the subject's band lists
Combos(s) ==
    LET all == Product(BandLists(s), 1)
    IN  {all[k] : k \in 1..Len(all)}

CombosPerTier(s) == Len(Product(BandLists(s), 1))

\* C1: a returned comps list is empty or has between min_comps and
\* max_comps entries; it never has more than max_comps (requests with
\* 0 <= min_comps <= max_comps).
CompsWithinBounds ==
    ReturnedResult =>
        LET n == Len(ret.value.comps)
        IN  n = 0 \/ (req.min_comps <= n /\ n <= req.max_comps)

\* C2: under radius_first_strict every visited tier evaluates exactly one
\* combination, attempts never exceeds the number of tiers, and an accepted
\* result carries the tightest combination.
StrictOneCombinationPerTier ==
    (req.radius_first_strict /\ subject # {}) =>
        /\ \A i \in DOMAIN tier_evals : tier_evals[i] = 1
        /\ attempts <= Len(geo_sequences(Subj, req))
        /\ (ReturnedResult /\ ret.value.meta.geo_tier # "None"
              => ret.value.meta.bands = BandLabels(FirstBands(Subj)))

\* C3: with the cache enabled, a call that repeats the request of the call
\* before it (same store) returns that call's result and issues no fetch,
\* not even the subject's.
SecondCallFromCache ==
    (Returned /\ cache_max > 0 /\ prev.valid /\ prev.req = req
       /\ prev.store = store_at_call /\ prev.ret.kind = "result") =>
        /\ ret.kind = "result"
        /\ ret.value = prev.ret.value
        /\ fetch_log = <<>>

\* the case of C4: the subject has coordinates; fewer than min_comps
\* candidates match at the first bands in the neighborhood tier and in the
\* first radius tier, at least min_comps in the second radius tier
TightOnlyInSecondRadius(st, s, q) ==
    /\ SubjectHasGeo(s)
    /\ Len(radius_tiers(q)) >= 2
    /\ SubjectHasNbhd(s) =>
          Cardinality(Matches(st, s, NbhdTier, FirstBands(s))) < q.min_comps
    /\ Cardinality(Matches(st, s, RadiusTier(q, 1), FirstBands(s))) < q.min_comps
    /\ Cardinality(Matches(st, s, RadiusTier(q, 2), FirstBands(s))) >= q.min_comps

\* no combination at all has min_comps matches in the tier: the radius
\* re-check keeps fewer than min_comps of its candidates, or every
\* combination has fewer than min_comps matches
NoCombinationReaches(st, s, tier, q) ==
    LET kept == {r \in Producer(st, s, tier).rows :
                    ~DroppedByRadius(r, s, tier.radius_val)}
    IN  \/ Cardinality(kept) < q.min_comps
        \/ \A combo \in Combos(s) :
              Cardinality({r \in kept : passes(r, s, combo)}) < q.min_comps

\* no combination at all reaches min_comps in the neighborhood tier or in
\* the first radius tier
NoCombinationBefore(st, s, q) ==
    /\ SubjectHasNbhd(s) => NoCombinationReaches(st, s, NbhdTier, q)
    /\ NoCombinationReaches(st, s, RadiusTier(q, 1), q)

\* the second radius tier, accepted at the first bands
SecondRadiusTight ==
    [geo_label |-> "radius", radius_val |-> radius_tiers(req)[2],
     bands |-> BandLabels(FirstBands(Subj))]

\* C4 (as stated): in that case the second radius tier is accepted with
\* no band relaxed, even when a relaxed combination reaches min_comps in
\* the neighborhood tier or in the first radius tier.
SecondRadiusAcceptedAnyway ==
    (Returned /\ subject # {} /\ TightOnlyInSecondRadius(store_at_call, Subj, req))
        => accepted = SecondRadiusTight

\* C4 (amended): in that case, and when no combination at all reaches
\* min_comps in the neighborhood tier or in the first radius tier, the
\* second radius tier is accepted with no band relaxed.
SecondRadiusAccepted ==
    (Returned /\ subject # {} /\ TightOnlyInSecondRadius(store_at_call, Subj, req)
       /\ NoCombinationBefore(store_at_call, Subj, req))
        => accepted = SecondRadiusTight

\* a call of the case of C4 has returned comparables of the second radius
SecondRadiusReached ==
    /\ ReturnedResult
    /\ TightOnlyInSecondRadius(store_at_call, Subj, req)
    /\ NoCombinationBefore(store_at_call, Subj, req)
    /\ Producer(store_at_call, Subj, RadiusTier(req, 1)).rows # {}
    /\ Len(ret.value.comps) >= 1
    /\ ret.value.meta.radius_miles = RADIUS_TIERS[2]

\* C5: when the subject has a neighborhood code and at least min_comps
\* same-neighborhood candidates, all passing the first band of every
\* dimension, the accepted tier is the neighborhood and no entry of
\* meta.relaxed is set, whatever the subject's flags.
NeighborhoodUnrelaxed ==
    (ReturnedResult /\ SubjectHasNbhd(Subj)
       /\ LET rows == Producer(store_at_call, Subj, NbhdTier).rows
          IN  /\ Cardinality(rows) >= req.min_comps
              /\ \A r \in rows : passes(r, Subj, FirstBands(Subj))) =>
        /\ ret.value.meta.geo_tier = "neighborhood"
        /\ \A k \in DOMAIN ret.value.meta.relaxed : ~ret.value.meta.relaxed[k]

\* C6: for a subject without neighborhood code, coordinates and postal
\* code the call returns an empty comps list, issues no candidate query and
\* evaluates no combination.
NoLocationNoSearch ==
    (Returned /\ subject # {} /\ ~SubjectHasNbhd(Subj) /\ ~SubjectHasGeo(Subj)
       /\ ~Truthy(Subj.site_addr_3)) =>
        /\ ret.kind = "result"
        /\ ret.value.comps = <<>>
        /\ fetch_log = <<SubjectFetch>>
        /\ \A i \in DOMAIN tier_evals : tier_evals[i] = 0
        /\ ret.value.meta.attempts = 0

\* C7: a result of an exhausted search has an empty comps list and
\* meta.attempts equal to the number of tiers times the number of
\* combinations per tier.
ExhaustionCountsEveryCombination ==
    (ReturnedResult /\ ret.value.meta.geo_tier = "None") =>
        /\ ret.value.comps = <<>>
        /\ ret.value.meta.attempts = Len(geo_sequences(Subj, req)) * CombosPerTier(Subj)

\* C8: a call for a subject the store has no row of ends with the
\* not-found error, after the subject fetch alone: no candidate query, no
\* combination evaluated, the cache as it was in content and order.
NotFoundLeavesNoTrace ==
    (Returned /\ subject = {}) =>
        /\ ret.kind = "NotFound"
        /\ fetch_log = <<SubjectFetch>>
        /\ tier_evals = <<>>
        /\ attempts = 0
        /\ _CACHE = cache_at_call

\* the not-found error was raised while the cache holds the request's key
NotFoundWithCachedKey ==
    /\ Returned
    /\ ret.kind = "NotFound"
    /\ cache_max > 0
    /\ CachePositions(_CACHE, cache_key(req)) # {}

\* C9: no call ends with a conversion error, whatever non-numeric strings
\* the size, year and market value fields hold.
NoConversionError == ret.kind # "ValueError"

\* C10: two calls with the same parameters on the same store accept the
\* same tier and the same combination, the cache enabled or disabled, in
\* whatever order the queries return their rows.
SameAcceptance ==
    (Returned /\ prev.valid /\ prev.req = req /\ prev.store = store_at_call
       /\ subject # {}) =>
        accepted = prev.accepted

\* with the cache disabled, two such calls accepted a tier of two
\* candidates and returned different comparables
SameAcceptanceOtherComps ==
    /\ ReturnedResult
    /\ cache_max = 0
    /\ prev.valid /\ prev.req = req /\ prev.store = store_at_call
    /\ prev.ret.kind = "result"
    /\ accepted.geo_label = "radius"
    /\ ret.value.comps # prev.ret.value.comps

(***************************************************************************)
(* Properties of passes and compute_score, called directly.                *)
(***************************************************************************)
\* the candidate of the direct call holds the subject's own value in the
\* probed field (every other field and the coordinates are the subject's)
ProbeIdentical == FieldOf(probe.c, probe.d) = FieldOf(probe.s, probe.d)

\* C12: compute_score returns a value between 0 and 100, and a comparable
\* that equals the subject in every dimension the subject knows, at
\* distance zero, scores exactly 100.0
ScoreRangeAndIdentity ==
    verdict.scored =>
        /\ 0 <= verdict.score /\ verdict.score <= 10000
        /\ ProbeIdentical => verdict.score = 10000

\* absent, blank or zero
Unknown(v) == v \in {PyNone, Blank, ZeroStr, 0}

\* the probed dimension's penalty had the candidate's field been absent
UnknownPenalty ==
    DimPenalty(probe.d,
               WithField(materialize_candidate(probe.c, probe.s, PyNone), probe.d, PyNone),
               probe.s, SCORING_WEIGHTS)

\* C18: a candidate whose size, lot or year field is a non-numeric string
\* is unknown in that dimension: no band of the dimension rejects it, and
\* the score carries no comparison penalty for it (nothing, or what an
\* absent value costs)
MalformedFieldIsUnknown ==
    (probe.d \in {1, 2, 3} /\ FieldOf(probe.c, probe.d) = Malformed) =>
        /\ verdict.filtered => verdict.passed
        /\ verdict.scored => verdict.penalty \in {0, UnknownPenalty}

\* C19: in the size, lot and year dimensions, under every band, a candidate
\* is never rejected when the subject's or the candidate's value is absent,
\* blank or zero
UnknownNeverRejected ==
    (probe.d \in {1, 2, 3} /\ verdict.filtered
       /\ (Unknown(FieldOf(probe.s, probe.d)) \/ Unknown(FieldOf(probe.c, probe.d))))
    => verdict.passed

\* a story count as the store holds it: absent, blank, or a positive integer
StoryUnknown(v) == v \in {PyNone, Blank}
StoryCount(v) == v >= 1

\* the stories check of the direct call, both story counts as the store
\* holds them
StoriesProbe ==
    /\ probe.d = 5 /\ verdict.filtered
    /\ StoryUnknown(probe.s.stories) \/ StoryCount(probe.s.stories)
    /\ StoryUnknown(probe.c.stories) \/ StoryCount(probe.c.stories)

\* C20: the stories band constrains only when the subject's story count is
\* known and the band is bounded; then a candidate without story count is
\* rejected and one with a story count is rejected exactly when the
\* difference exceeds the tolerance; with the subject's count unknown
\* nothing is rejected
StoriesBandNeedsKnownSubject ==
    StoriesProbe =>
        (~verdict.passed <=>
            /\ ~StoryUnknown(probe.s.stories)
            /\ probe.band # PyNone
            /\ \/ StoryUnknown(probe.c.stories)
               \/ /\ StoryCount(probe.c.stories)
                  /\ Abs(probe.c.stories - probe.s.stories) > probe.band)

\* the filter rejected a candidate without story count under a bounded
\* tolerance, the subject's count known
UnknownStoriesRejected ==
    /\ StoriesProbe
    /\ StoryCount(probe.s.stories) /\ StoryUnknown(probe.c.stories)
    /\ probe.band # PyNone
    /\ ~verdict.passed

(***************************************************************************)
(* Properties of the LRU list.                                             *)
(***************************************************************************)
\* the keys held by the list c
CacheKeys(c) == {c[i][1] : i \in 1..Len(c)}

\* the keys some access of the log touched
LoggedKeys == {cache_log[i] : i \in 1..Len(cache_log)}

\* the position in log of the last, and of the first, hit or set of key
LastAccess(log, key) ==
    CHOOSE i \in 1..Len(log) : log[i] = key /\ \A j \in (i + 1)..Len(log) : log[j] # key
FirstAccess(log, key) ==
    CHOOSE i \in 1..Len(log) : log[i] = key /\ \A j \in 1..(i - 1) : log[j] # key

\* C13: the list never holds more than max(0, CACHE_MAX_ENTRIES) entries;
\* with a capacity of zero or less it stays empty, a _cache_set changes
\* nothing and every _cache_get is a miss
CacheWithinCapacity ==
    /\ Len(_CACHE) <= (IF cache_max > 0 THEN cache_max ELSE 0)
    /\ cache_max <= 0 => (_CACHE = <<>> /\ cache_log = <<>> /\ ret.kind # "hit")

\* the list is full and a _cache_set has dropped an entry
CacheFullAfterEviction ==
    /\ cache_max > 0
    /\ Len(_CACHE) = cache_max
    /\ LoggedKeys \ CacheKeys(_CACHE) # {}

\* the list holds every key once, the later accessed the nearer the front
RecencyOrdered ==
    /\ CacheKeys(_CACHE) \subseteq LoggedKeys
    /\ \A i, j \in 1..Len(_CACHE) :
          i < j => LastAccess(cache_log, _CACHE[i][1]) > LastAccess(cache_log, _CACHE[j][1])

\* a step that drops keys drops one, the least recently accessed
EvictsOldest ==
    LET gone == CacheKeys(_CACHE) \ CacheKeys(_CACHE')
    IN  gone # {} =>
          \E k \in gone :
             /\ gone = {k}
             /\ \A k2 \in CacheKeys(_CACHE) :
                   LastAccess(cache_log, k) <= LastAccess(cache_log, k2)

\* C14: the list is ordered by recency of last access (a hit or a set
\* moves the entry to the front), and the entry a _cache_set evicts is the
\* one whose last hit or set is the oldest
StrictLRU == []RecencyOrdered /\ [][EvictsOldest]_vars

\* an entry was evicted although the entry now last in the list was stored
\* before it: a hit had moved that one forward
EvictedYoungerThanSurvivor ==
    /\ Len(_CACHE) >= 2
    /\ \E k \in LoggedKeys \ CacheKeys(_CACHE) :
          FirstAccess(cache_log, _CACHE[Len(_CACHE)][1]) < FirstAccess(cache_log, k)

(***************************************************************************)
(* Properties of the order of the result and of the tier loop.             *)
(***************************************************************************)
\* x.distance <= y.distance, an unknown distance counting as +infinity
DistanceAtMost(x, y) ==
    \/ y.distance_miles = PyNone
    \/ x.distance_miles # PyNone /\ x.distance_miles <= y.distance_miles

\* the distance of a comparable, an unknown one counting as 9999 miles
DistanceOr9999(r) == IF r.distance_miles = PyNone THEN 999900 ELSE r.distance_miles

RadiiFetched ==
    LET IsRadius(f) == f.geo_label = "radius"
        fetched == SelectSeq(fetch_log, IsRadius)
    IN  [i \in 1..Len(fetched) |-> fetched[i].radius_val]

\* the configured radii not above the request's max_radius
RadiiWithin(q) == {Radii[i] : i \in {j \in 1..Len(Radii) : Radii[j] <= q.max_radius}}

\* C17: with max_radius given and a configured radius not above it, no
\* radius above max_radius is queried and meta.radius_miles does not exceed
\* it; with every configured radius above max_radius the whole list is used
MaxRadiusRespected ==
    (subject # {} /\ req.max_radius # PyNone) =>
        IF RadiiWithin(req) # {}
        THEN /\ \A i \in 1..Len(RadiiFetched) : RadiiFetched[i] <= req.max_radius
             /\ ReturnedResult =>
                   \/ ret.value.meta.radius_miles = PyNone
                   \/ ret.value.meta.radius_miles <= req.max_radius
        ELSE /\ RadiiFetched = SubSeq(Radii, 1, Len(RadiiFetched))
             /\ (ReturnedResult /\ SubjectHasGeo(Subj)
                   /\ ret.value.meta.geo_tier \in {"zip", "None"})
                => RadiiFetched = Radii

\* a call with max_radius between two configured radii went through the
\* radius tiers and ended in the postal code tier or without a tier
SearchPastCappedRadii ==
    /\ ReturnedResult
    /\ req.max_radius # PyNone
    /\ RadiiWithin(req) # {}
    /\ \E i \in 1..Len(Radii) : Radii[i] > req.max_radius
    /\ Len(RadiiFetched) >= 1
    /\ ret.value.meta.geo_tier \in {"zip", "None"}

\* the place of a tier in the fixed order: neighborhood, the radii
\* ascending, postal code
TierRank(f) ==
    IF f.geo_label = "neighborhood" THEN 0
    ELSE IF f.geo_label = "radius" THEN f.radius_val
    ELSE 1000000

\* the candidate queries of the call, in order (the subject's query left out)
TierFetches == SubSeq(fetch_log, 2, Len(fetch_log))

\* C15: within one request the candidate queries come in the fixed order
\* neighborhood (only with a neighborhood code), radii ascending (only with
\* coordinates), postal code last, each at most once; a tier is queried
\* only after every combination of every earlier tier failed to reach
\* min_comps; nothing is queried or evaluated after the acceptance
TiersInOrderUntilAccepted ==
    (subject # {} /\ fetch_log # <<>>) =>
        /\ \A i, j \in 1..Len(TierFetches) :
              i < j => TierRank(TierFetches[i]) < TierRank(TierFetches[j])
        /\ \A i \in 1..Len(TierFetches) :
              /\ TierFetches[i].geo_label = "neighborhood" => SubjectHasNbhd(Subj)
              /\ TierFetches[i].geo_label = "radius" => SubjectHasGeo(Subj)
              /\ (TierFetches[i].geo_label # "neighborhood" /\ SubjectHasNbhd(Subj))
                    => TierFetches[1] = NbhdTier
              /\ \A j \in 1..(i - 1) :
                    NoCombinationReaches(store_at_call, Subj, TierFetches[j], req)
        /\ accepted # NotAccepted =>
              /\ pc = "idle"
              /\ \A i \in 1..Len(TierFetches) :
                    TierRank(TierFetches[i]) <= TierRank(accepted)
              /\ ReturnedResult => ret.value.meta.attempts = attempts

\* the call queried the neighborhood and every radius and accepted the
\* postal code tier
AcceptedInLastTier ==
    /\ ReturnedResult
    /\ accepted.geo_label = "zip"
    /\ Len(TierFetches) = Len(Radii) + 2
    /\ Len(ret.value.comps) >= 1

\* the position of band in its list
BandPosition(list, band) == CHOOSE i \in 1..Len(list) : list[i] = band

\* the positions of a combination's bands in the subject's band lists
Positions(s, combo) == [d \in 1..7 |-> BandPosition(BandLists(s)[d], combo[d])]

\* lexicographic order of position vectors: size first, garage last
LexBefore(p, r) == \E d \in 1..7 : p[d] < r[d] /\ \A e \in 1..(d - 1) : p[e] = r[e]

\* the candidates of the accepted tier that the radius re-check keeps
AcceptedKept ==
    {r \in Producer(store_at_call, Subj, accepted).rows :
        ~DroppedByRadius(r, Subj, accepted.radius_val)}

\* C16: with radius_first_strict off, the accepted combination is the first
\* in lexicographic order of band positions (size outermost, then lot, year,
\* bed/bath, stories, pool, garage innermost) whose comparables number at
\* least min_comps, in the earliest tier that has such a combination
FirstCombinationInOrder ==
    (ReturnedResult /\ ~req.radius_first_strict /\ accepted # NotAccepted) =>
        LET s == Subj
            kept == AcceptedKept
            Count(combo) == Cardinality({r \in kept : passes(r, s, combo)})
        IN  /\ \A j \in 1..Len(TierFetches) :
                  TierRank(TierFetches[j]) < TierRank(accepted)
                     => NoCombinationReaches(store_at_call, s, TierFetches[j], req)
            /\ \E combo \in Combos(s) :
                  /\ BandLabels(combo) = accepted.bands
                  /\ Count(combo) >= req.min_comps
                  /\ LET at == Positions(s, combo)
                     IN  \A other \in Combos(s) :
                            LexBefore(Positions(s, other), at)
                               => Count(other) < req.min_comps

\* a call with radius_first_strict off accepted a combination that is not
\* the first of its tier
RelaxedCombinationAccepted ==
    /\ ReturnedResult
    /\ ~req.radius_first_strict
    /\ req.min_comps >= 1
    /\ accepted # NotAccepted
    /\ accepted.bands # BandLabels(FirstBands(Subj))
    /\ Len(ret.value.comps) >= req.min_comps

(***************************************************************************)
(* Properties of the pool and garage flags.                                *)
(***************************************************************************)
\* a flag is known when it is 0 or 1
FlagKnown(v) == v = 0 \/ v = 1

\* the direct call probes a flag
FlagProbe == probe.d \in {6, 7}

\* C21: under rule `match` a candidate is rejected exactly when the
\* subject's and the candidate's flag are both known and differ; an unknown
\* flag on either side never rejects, and rule `any` never rejects
FlagRejectsOnDefiniteMismatch ==
    (FlagProbe /\ verdict.filtered) =>
        (~verdict.passed <=>
            /\ probe.mode = "match"
            /\ FlagKnown(FieldOf(probe.s, probe.d))
            /\ FlagKnown(FieldOf(probe.c, probe.d))
            /\ FieldOf(probe.s, probe.d) # FieldOf(probe.c, probe.d))

\* the filter rejected a candidate whose known flag differs from the
\* subject's under rule `match`
FlagMismatchRejected ==
    /\ FlagProbe /\ verdict.filtered /\ ~verdict.passed
    /\ probe.mode = "match"
    /\ FieldOf(probe.s, probe.d) = 1 /\ FieldOf(probe.c, probe.d) = 0

\* C23: the pool (garage) penalty is 0 when both flags are known and
\* equal, half the pool_garage weight when both are known and differ, and a
\* quarter of the weight whenever the subject's or the comparable's flag is
\* unknown
FlagPenaltyByKnowledge ==
    (FlagProbe /\ verdict.scored) =>
        LET sf == FieldOf(probe.s, probe.d)
            cf == FieldOf(probe.c, probe.d)
            w == Ppm(SCORING_WEIGHTS.pool_garage)
        IN  verdict.penalty =
               IF FlagKnown(sf) /\ FlagKnown(cf)
               THEN (IF sf = cf THEN 0 ELSE w \div 2)
               ELSE w \div 4

\* C24: with the default weights the penalty compute_score accumulates
\* before the 0.99 cap lies between 0 and 1
RawPenaltyAtMostOne ==
    verdict.scored => (0 <= verdict.raw /\ verdict.raw <= 1000000)

\* the accounts of the returned comps
ReturnedAccts == {ret.value.comps[j].acct : j \in 1..Len(ret.value.comps)}

\* the candidates of the accepted tier that pass the accepted combination
\* and are not among the returned comps
PassingLeftOut ==
    LET s == Subj
        tier == [geo_label |-> accepted.geo_label, radius_val |-> accepted.radius_val]
        combos == {combo \in Combos(s) : BandLabels(combo) = accepted.bands}
    IN  {c \in Producer(store_at_call, s, tier).rows :
            c.acct \notin ReturnedAccts /\ \E combo \in combos : passes(c, s, combo)}

\* C22: with a radius tier accepted at radius r every comp of known
\* distance lies within r; a passing candidate is left out of a list that
\* is not full only in a radius tier, with coordinates on both sides and a
\* distance above r; in the neighborhood and postal code tiers none is
RecheckedWithinRadius ==
    (ReturnedResult /\ accepted.geo_label # "None") =>
        LET s == Subj
            r == accepted.radius_val
            comps == ret.value.comps
        IN  /\ accepted.geo_label = "radius" =>
                 \A j \in 1..Len(comps) :
                     \/ comps[j].distance_miles = PyNone
                     \/ comps[j].distance_miles <= 10 * r
            /\ Len(comps) < req.max_comps =>
                 \A c \in PassingLeftOut :
                     /\ accepted.geo_label = "radius"
                     /\ s.latitude >= 0 /\ s.longitude >= 0
                     /\ c.latitude >= 0 /\ c.longitude >= 0
                     /\ haversine2(s.latitude, s.longitude, c.latitude, c.longitude)
                           > r * r

\* a radius tier was accepted with a comp inside the circle while a passing
\* candidate of its bounding box lies outside the circle
DroppedOutsideCircle ==
    /\ ReturnedResult
    /\ accepted.geo_label = "radius"
    /\ Len(ret.value.comps) >= 1
    /\ Len(ret.value.comps) < req.max_comps
    /\ PassingLeftOut # {}

(***************************************************************************)
(* The nested-loop find_comps (comparables/engine.py): under               *)
(* radius_first_strict a pass over every tier at the first bands, then,    *)
(* whatever the flag, the seven nested band loops tier after tier.  Its    *)
(* filter, re-check and inner loop are those of the product-based engine.  *)
(***************************************************************************)
\* len(selected) when the inner loop ends on n matching candidates: the
\* length is tested after the append
legacy_selected(n, max_comps) ==
    IF n = 0 THEN 0 ELSE MinOf(n, IF max_comps >= 1 THEN max_comps ELSE 1)

\* the first tier whose matches at the first bands reach min_comps (0: none)
legacy_strict_pass(st, s, q) ==
    LET tiers == geo_sequences(s, q)
        first == FirstBands(s)
        hit == {i \in 1..Len(tiers) :
                   legacy_selected(Cardinality(Matches(st, s, tiers[i], first)),
                                   q.max_comps) >= q.min_comps}
    IN  IF hit = {} THEN 0 ELSE CHOOSE i \in hit : \A j \in hit : i <= j

\* the first tier, and in it the first combination of the nested loops,
\* whose matches reach min_comps (tier 0: none)
legacy_relaxation(st, s, q) ==
    LET tiers == geo_sequences(s, q)
        all == Product(BandLists(s), 1)
        Hits(i) == {k \in 1..Len(all) :
                       legacy_selected(Cardinality(Matches(st, s, tiers[i], all[k])),
                                       q.max_comps) >= q.min_comps}
        hit == {i \in 1..Len(tiers) : Hits(i) # {}}
    IN  IF hit = {} THEN [tier |-> 0, combo |-> FirstBands(s)]
        ELSE LET i == CHOOSE x \in hit : \A j \in hit : x <= j
                 k == CHOOSE x \in Hits(i) : \A j \in Hits(i) : x <= j
             IN  [tier |-> i, combo |-> all[k]]

\* the tier and combination the nested-loop engine accepts, with the
\* candidates matching there
legacy_find_comps(st, s, q) ==
    LET tiers == geo_sequences(s, q)
        strict == IF q.radius_first_strict THEN legacy_strict_pass(st, s, q) ELSE 0
        relaxed == legacy_relaxation(st, s, q)
        i == IF strict # 0 THEN strict ELSE relaxed.tier
        combo == IF strict # 0 THEN FirstBands(s) ELSE relaxed.combo
    IN  IF i = 0 THEN [accepted |-> NotAccepted, matches |-> {}]
        ELSE [accepted |-> [geo_label |-> tiers[i].geo_label,
                            radius_val |-> tiers[i].radius_val,
                            bands |-> BandLabels(combo)],
              matches |-> Matches(st, s, tiers[i], combo)]

\* C26: on every subject, store and request, strict or not, the nested-loop
\* engine accepts the tier and the combination the product-based engine
\* accepts and returns the same comps (compared where the matches fit
\* max_comps, so that the order of the rows does not decide)
LegacyEquivalent ==
    ReturnedResult =>
        LET legacy == legacy_find_comps(store_at_call, Subj, req)
        IN  /\ accepted = legacy.accepted
            /\ Cardinality(legacy.matches) <= req.max_comps
                  => ReturnedAccts = {c.acct : c \in legacy.matches}

\* C27: the returned comps are the best-scoring qualifying candidates: no
\* candidate of the accepted tier that passes the accepted combination and
\* is kept by the radius re-check, yet is left out, scores strictly higher
\* than a returned comp (requests with max_comps >= 1)
BestScoringReturned ==
    (ReturnedResult /\ accepted.geo_label # "None" /\ req.max_comps >= 1) =>
        \A c \in PassingLeftOut :
            \/ DroppedByRadius(c, Subj, accepted.radius_val)
            \/ \A j \in 1..Len(ret.value.comps) :
                  compute_score(materialize_candidate(c, Subj, accepted.radius_val),
                                Subj, SCORING_WEIGHTS)
                     <= ret.value.comps[j].score

\* the candidates of a tier the radius re-check keeps
Surviving(st, s, tier) ==
    {c \in Producer(st, s, tier).rows : ~DroppedByRadius(c, s, tier.radius_val)}

\* a request without radius_first_strict and with 1 <= min_comps <= max_comps
RelaxingRequest ==
    ~req.radius_first_strict /\ 1 <= req.min_comps /\ req.min_comps <= req.max_comps

\* C28: without radius_first_strict and with 1 <= min_comps <= max_comps
\* the call returns empty comps exactly when no tier of its tier list has
\* min_comps candidates surviving that tier's radius re-check
EmptyIffNoTierReaches ==
    (Returned /\ subject # {} /\ RelaxingRequest) =>
        LET tiers == geo_sequences(Subj, req)
        IN  (ret.kind = "result" /\ ret.value.comps = <<>>)
            <=> \A i \in 1..Len(tiers) :
                    Cardinality(Surviving(store_at_call, Subj, tiers[i])) < req.min_comps

\* empty comps were returned although a tier's query returned min_comps
\* candidates: the re-check left fewer
EmptyAfterRecheck ==
    /\ ReturnedResult /\ RelaxingRequest
    /\ ret.value.comps = <<>>
    /\ \E i \in 1..Len(geo_sequences(Subj, req)) :
          Cardinality(Producer(store_at_call, Subj, geo_sequences(Subj, req)[i]).rows)
             >= req.min_comps

\* the k-th smallest value of a series
KthSmallest(vals, k) ==
    CHOOSE x \in {vals[i] : i \in DOMAIN vals} :
        /\ Cardinality({i \in DOMAIN vals : vals[i] < x}) < k
        /\ Cardinality({i \in DOMAIN vals : vals[i] <= x}) >= k

\* twice the statistical median: the middle value, or the two middle values
TwiceMedian(vals) ==
    LET n == Len(vals)
    IN  KthSmallest(vals, (n + 1) \div 2) + KthSmallest(vals, (n \div 2) + 1)

\* the block reports the count of vals and their statistical median
BlockOf(block, vals) ==
    /\ block.count = Len(vals)
    /\ vals # <<>> => 2 * block.median = TwiceMedian(vals)

\* the statistics of the direct call are those of its comps: a comp has a
\* market value (a ppsf) when the field holds a number other than zero
StatsAsClaimed ==
    LET comps == probe.comps
        st == verdict.stats
        HasValue(c) == c.market_value > 0
        HasPrice(c) == c.ppsf > 0
        priced == SelectSeq(comps, HasValue)
        perarea == SelectSeq(comps, HasPrice)
        known == {i \in 1..Len(comps) : FlagKnown(comps[i].has_pool)}
        same == {i \in known : comps[i].has_pool = probe.s.has_pool}
    IN  /\ BlockOf(st.value_stats, [i \in 1..Len(priced) |-> 100 * priced[i].market_value])
        /\ BlockOf(st.ppsf_stats, [i \in 1..Len(perarea) |-> perarea[i].ppsf])
        /\ comps = <<>> => (st.value_stats.count = 0 /\ st.ppsf_stats.count = 0)
        /\ (known # {} /\ FlagKnown(probe.s.has_pool)) =>
              /\ st.pool_match_rate # PyNone
              /\ 2 * Abs(st.pool_match_rate * Cardinality(known)
                            - 10000 * Cardinality(same)) <= Cardinality(known)

\* C25: for every list of comps compute_pricing_stats reports, for market
\* value and for ppsf, the count of the comps that have one and their
\* statistical median, count 0 in both blocks for the empty list, and as
\* pool_match_rate the percentage of the flag-known comps whose pool flag
\* is the subject's known flag
StatsCountsAndMedians ==
    verdict.summarised => (~verdict.stats.raised /\ StatsAsClaimed)

\* min <= q1 <= median <= q3 <= max, iqr = q3 - q1 >= 0, range = max - min >= 0
BlockOrdered(block) ==
    /\ block.min <= block.q1 /\ block.q1 <= block.median
    /\ block.median <= block.q3 /\ block.q3 <= block.max
    /\ block.iqr = block.q3 - block.q1 /\ block.iqr >= 0
    /\ block.range = block.max - block.min /\ block.range >= 0

\* C30: for every non-empty sample each block of compute_pricing_stats has
\* min <= q1 <= median <= q3 <= max, iqr = q3 - q1 >= 0 and
\* range = max - min >= 0
QuartilesOrdered ==
    (verdict.summarised /\ ~verdict.stats.raised) =>
        /\ verdict.stats.value_stats.count > 0 => BlockOrdered(verdict.stats.value_stats)
        /\ verdict.stats.ppsf_stats.count > 0 => BlockOrdered(verdict.stats.ppsf_stats)

\* both concurrent requests have ended (returned or raised)
RaceOver == \A t \in {1, 2} : threads[t].pc \in {"done", "error"}

\* C29: however the steps of the cache calls of two concurrent requests
\* interleave, none raises an error, and once both requests have ended the
\* cache holds at most one entry per key and at most the configured number
\* of entries
RaceFree ==
    /\ \A t \in {1, 2} : threads[t].pc # "error"
    /\ RaceOver =>
          /\ \A i, j \in 1..Len(_CACHE) : i # j => _CACHE[i][1] # _CACHE[j][1]
          /\ Len(_CACHE) <= cache_max

====
